---- MODULE Spec2Model ----
(***************************************************************************)
(* Model of the ROSA regional frontend authorization service               *)
(* (pkg/authz): the layered Authorize pipeline, the privileged checker,    *)
(* account / admin / group bookkeeping and the policy template and         *)
(* attachment orchestration against the DynamoDB tables and the AVP        *)
(* (Cedar) evaluator.                                                      *)
(*                                                                         *)
(* Strings the code only compares are TLA+ strings.  Strings the code      *)
(* takes apart (action patterns, resource patterns, rendered Cedar text)   *)
(* are sequences of tokens, so prefix / suffix tests and concatenation are *)
(* computed.  The DynamoDB tables are modelled as linearizable; every      *)
(* store and evaluator call may fail (transport error, deadline expiry,    *)
(* cancellation), chosen per execution of a handler.                       *)
(***************************************************************************)
EXTENDS Integers, Sequences, FiniteSets, TLC

(***************************************************************************)
(* Bounds of the model                                                     *)
(***************************************************************************)
\* An identifier the code draws afresh (uuid.New(), the ids the evaluator
\* hands out) is modelled as the least identifier nothing refers to any
\* more, so the bounds are on what exists at one time, not on the length of
\* a run.
\* attachment rows, and policies registered at the evaluator
MaxAttachments == 1

(***************************************************************************)
(* Input domains                                                           *)
(***************************************************************************)
\* account in the bootstrap file, a tenant account, an account never enabled
BootstrapAccount == "111122223333"
TenantAccount == "777788889999"
UnknownAccount == "999999999999"
AccountIds == {BootstrapAccount, TenantAccount, UnknownAccount}
\* the numbers of the template ids and of the policy-store ids in play
PolicyNumbers == {1}
PolicyStoreNumbers == {1}
\* accounts the account-management API is called with
EnableIds == {TenantAccount}

Alice == "arn:aws:iam::777788889999:user/alice"
Bob == "arn:aws:iam::777788889999:user/bob"
CallerArns == {Alice, Bob}
GroupIds == {"G"}

\* ways a store or evaluator call fails
FailureKinds == {"transport", "deadline", "canceled"}

NoRow == [present |-> FALSE, privileged |-> FALSE, policyStoreId |-> <<>>]
NoErr == [msg |-> "nil", cause |-> "none"]

VARIABLES
    cfgEnabled,         \* Config.Enabled
    file,               \* the bootstrap file on disk
    configmapOnce,      \* Checker.configmapOnce has run
    configmapAccounts,  \* Checker.configmapAccounts
    configmapErr,       \* Checker.configmapErr
    accounts,           \* accounts table: accountId -> row
    admins,             \* admins table: set of <<accountId, principalArn>>
    members,            \* members table: set of <<accountId, groupId, memberArn>>
    policies,           \* policy template table: set of rows
    attachments,        \* attachments table: set of rows
    policyStores,       \* evaluator: policy stores that exist
    avpPolicies,        \* evaluator: registered policies
    last,               \* the last handler execution: inputs, collaborator calls, result
    goroutines,         \* concurrent calls: goroutine -> position and locals
    onceM,              \* holder of the mutex of Checker.configmapOnce
    lazyLoads,          \* what the lazy initializer and the latest reload read
    customers,          \* customer accounts table read by clients/dynamodb
    cache,              \* clients/dynamodb Client.cache
    now,                \* time.Now()
    agentPolicies       \* policies registered at cedar-agent

\* what only the interleaved executions and the request path use
runtimeVars == <<goroutines, onceM, lazyLoads, customers, cache, now, agentPolicies>>

vars == <<cfgEnabled, file, configmapOnce, configmapAccounts, configmapErr,
          accounts, admins, members, policies, attachments, policyStores,
          avpPolicies, last, runtimeVars>>

checkerVars == <<configmapOnce, configmapAccounts, configmapErr>>
storeVars == <<accounts, admins, members, policies, attachments>>
evaluatorVars == <<policyStores, avpPolicies>>

Range(s) == {s[i] : i \in 1..Len(s)}

(***************************************************************************)
(* Errors.  fmt.Errorf("...: %w", err) keeps the cause; fmt.Errorf without *)
(* %w and a bare error string carry none.                                  *)
(***************************************************************************)
Wrap(msg, kind) == [msg |-> msg, cause |-> kind]
Raw(kind) == [msg |-> "", cause |-> kind]
Plain(msg) == [msg |-> msg, cause |-> "none"]

(***************************************************************************)
(* Privileged checker (pkg/authz/privileged)                               *)
(***************************************************************************)
\* loadConfigmap: a missing file is the empty set and no error; any other
\* open or scan error is returned; otherwise the non-comment lines.
loadConfigmap ==
    IF file.status = "missing" THEN [accounts |-> {}, err |-> FALSE]
    ELSE IF file.status = "unreadable" THEN [accounts |-> {}, err |-> TRUE]
    ELSE [accounts |-> file.accounts, err |-> FALSE]

\* state of the checker after configmapOnce.Do(...) returned
onceAccounts == IF configmapOnce THEN configmapAccounts ELSE loadConfigmap.accounts
onceErr == IF configmapOnce THEN configmapErr ELSE loadConfigmap.err

\* isInConfigmap, evaluated after the lazy load
isInConfigmap(accountID) == (~onceErr) /\ accountID \in onceAccounts

\* isPrivilegedInDB when GetItem succeeds
isPrivilegedInDB(accountID) ==
    accounts[accountID].present /\ accounts[accountID].privileged

LazyLoad ==
    /\ configmapOnce' = TRUE
    /\ configmapAccounts' = onceAccounts
    /\ configmapErr' = onceErr

(***************************************************************************)
(* DSL v0 documents (pkg/authz/policy).  An action or resource pattern is  *)
(* a sequence of tokens: "rosa:Describe*" is <<"rosa:", "Describe", "*">>. *)
(* A rendered Cedar text is the sequence of the pieces written to it.      *)
(***************************************************************************)
Star == <<"*">>

\* allActions, translator.go 694-717
allActions ==
    << <<"Create", "Cluster">>, <<"Delete", "Cluster">>, <<"Describe", "Cluster">>,
       <<"List", "Clusters">>, <<"Update", "Cluster">>,
       <<"Update", "Cluster", "Config">>, <<"Update", "Cluster", "Version">>,
       <<"Create", "Node", "Pool">>, <<"Delete", "Node", "Pool">>,
       <<"Describe", "Node", "Pool">>, <<"List", "Node", "Pools">>,
       <<"Update", "Node", "Pool">>, <<"Scale", "Node", "Pool">>,
       <<"Create", "Access", "Entry">>, <<"Delete", "Access", "Entry">>,
       <<"Describe", "Access", "Entry">>, <<"List", "Access", "Entries">>,
       <<"Update", "Access", "Entry">>, <<"Tag", "Resource">>,
       <<"Untag", "Resource">>, <<"List", "Tags", "For", "Resource">>,
       <<"List", "Access", "Policies">> >>

\* tokens matching [A-Za-z]+ (the words of the catalog and a few more)
AlphaTokens ==
    UNION {Range(allActions[i]) : i \in 1..Len(allActions)}
        \cup {"Get", "describe", "Frobnicate"}

HasPrefix(s, prefix) ==
    Len(prefix) <= Len(s) /\ SubSeq(s, 1, Len(prefix)) = prefix
HasSuffix(s, suffix) ==
    Len(suffix) <= Len(s) /\ SubSeq(s, Len(s) - Len(suffix) + 1, Len(s)) = suffix
TrimPrefix(s, prefix) ==
    IF HasPrefix(s, prefix) THEN SubSeq(s, Len(prefix) + 1, Len(s)) ELSE s
TrimSuffix(s, suffix) ==
    IF HasSuffix(s, suffix) THEN SubSeq(s, 1, Len(s) - Len(suffix)) ELSE s

RECURSIVE Join(_, _)
Join(texts, sep) ==
    IF texts = <<>> THEN <<>>
    ELSE IF Len(texts) = 1 THEN texts[1]
    ELSE texts[1] \o sep \o Join(Tail(texts), sep)

\* an expansion that knows no wildcard
expandActionLiteral(pattern) == <<TrimPrefix(pattern, <<"rosa:">>)>>

\* expandAction, translator.go 149-174
expandAction(pattern) ==
    LET action == TrimPrefix(pattern, <<"rosa:">>)
        prefix == TrimSuffix(action, Star)
        matching == SelectSeq(allActions, LAMBDA a : HasPrefix(a, prefix))
    IN  IF action = Star THEN allActions
        ELSE IF HasSuffix(action, Star) /\ Len(matching) > 0 THEN matching
        ELSE <<action>>

\* the keys of the expandedActions map of buildActionClause
expandedActions(actions) ==
    UNION {Range(expandAction(actions[i])) : i \in 1..Len(actions)}

\* the orders in which a range over a Go map with key set S can run
RECURSIVE Orderings(_)
Orderings(S) ==
    IF S = {} THEN {<<>>}
    ELSE UNION {{<<x>> \o o : o \in Orderings(S \ {x})} : x \in S}

\* the iteration orders buildActionClause can see for these actions
ActionOrders(actions) ==
    IF Len(actions) = 0 \/ (Len(actions) = 1 /\ actions[1] = Star) THEN {<<>>}
    ELSE Orderings(expandedActions(actions))

\* buildActionClause, translator.go 114-146; order is the map iteration order
buildActionClause(actions, order) ==
    IF Len(actions) = 0 THEN [err |-> TRUE, clause |-> <<>>]
    ELSE IF Len(actions) = 1 /\ actions[1] = Star
    THEN [err |-> FALSE, clause |-> <<"action">>]
    ELSE IF Len(order) = 1
    THEN [err |-> FALSE,
          clause |-> <<"action == ROSA::Action::\"">> \o order[1] \o <<"\"">>]
    ELSE [err |-> FALSE,
          clause |-> <<"action in [">>
              \o Join([i \in 1..Len(order) |->
                         <<"ROSA::Action::\"">> \o order[i] \o <<"\"">>], <<", ">>)
              \o <<"]">>]

\* a principal clause that binds nobody
buildPrincipalClauseUnbound(principalType, principalID) == <<"principal">>

\* buildPrincipalClause, translator.go 102-111
buildPrincipalClause(principalType, principalID) ==
    IF principalType = "user"
    THEN <<"principal == ROSA::Principal::\"", principalID, "\"">>
    ELSE IF principalType = "group"
    THEN <<"principal in ROSA::Group::\"", principalID, "\"">>
    ELSE <<"principal">>

\* buildResourceClauses, translator.go 178-225
buildResourceClauses(resources) ==
    LET exactMatches == SelectSeq(resources, LAMBDA r : "*" \notin Range(r))
        wildcardPatterns == SelectSeq(resources, LAMBDA r : "*" \in Range(r))
        conditions ==
            [i \in 1..Len(exactMatches) |->
                <<"resource.arn == \"">> \o exactMatches[i] \o <<"\"">>]
            \o [i \in 1..Len(wildcardPatterns) |->
                <<"resource.arn like \"">> \o wildcardPatterns[i] \o <<"\"">>]
    IN  IF Len(resources) = 0 \/ (Len(resources) = 1 /\ resources[1] = Star)
        THEN [scope |-> <<"resource">>, condition |-> <<>>]
        ELSE IF Len(wildcardPatterns) > 0
        THEN IF Len(conditions) = 1
             THEN [scope |-> <<"resource">>, condition |-> conditions[1]]
             ELSE [scope |-> <<"resource">>,
                   condition |-> <<"(">> \o Join(conditions, <<" || ">>) \o <<")">>]
        ELSE IF Len(exactMatches) = 1
        THEN [scope |-> <<"resource == ROSA::Resource::\"">> \o exactMatches[1] \o <<"\"">>,
              condition |-> <<>>]
        ELSE [scope |-> <<"resource in [">>
                  \o Join([i \in 1..Len(exactMatches) |->
                             <<"ROSA::Resource::\"">> \o exactMatches[i] \o <<"\"">>],
                          <<", ">>)
                  \o <<"]">>,
              condition |-> <<>>]

\* an effect switch without its forbid case
cedarEffectPermit(effect) == "permit"

\* the effect keyword, translator.go 37-46
cedarEffect(effect) ==
    IF effect = "Allow" THEN "permit"
    ELSE IF effect = "Deny" THEN "forbid"
    ELSE "permit"

(***************************************************************************)
(* Conditions.  A statement's Conditions map (operator -> key -> value) is *)
(* the set of its entries [operator, key, value].  An operator name is a   *)
(* token sequence whose trailing "IfExists" tokens are the suffixes the    *)
(* translator strips; a key is a token sequence; a value is                *)
(* [type, v] with type "string" or "number" (v a token sequence), "bool"   *)
(* (v a BOOLEAN) or "array" (v a sequence of such values).                 *)
(***************************************************************************)
IfExists == <<"IfExists">>

\* the operators of the switch of translateCondition, translator.go 259-338
StringEqualsOperators == {<<"StringEquals">>, <<"ArnEquals">>, <<"BinaryEquals">>}
StringNotEqualsOperators == {<<"StringNotEquals">>, <<"ArnNotEquals">>}
StringLikeOperators == {<<"StringLike">>, <<"ArnLike">>}
StringNotLikeOperators == {<<"StringNotLike">>, <<"ArnNotLike">>}
NumericOperators ==
    {<<"NumericEquals">>, <<"NumericNotEquals">>, <<"NumericLessThan">>,
     <<"NumericLessThanEquals">>, <<"NumericGreaterThan">>,
     <<"NumericGreaterThanEquals">>}
DateOperators ==
    {<<"DateEquals">>, <<"DateNotEquals">>, <<"DateLessThan">>,
     <<"DateLessThanEquals">>, <<"DateGreaterThan">>, <<"DateGreaterThanEquals">>}
SetOperators ==
    {<<"ForAllValues:StringEquals">>, <<"ForAnyValue:StringEquals">>,
     <<"ForAllValues:StringNotEquals">>, <<"ForAnyValue:StringNotEquals">>}
SetLikeOperators == {<<"ForAllValues:StringLike">>, <<"ForAnyValue:StringLike">>}
translatorOperators ==
    StringEqualsOperators \cup StringNotEqualsOperators \cup StringLikeOperators
        \cup StringNotLikeOperators \cup {<<"Bool">>} \cup NumericOperators
        \cup DateOperators \cup {<<"IpAddress">>, <<"NotIpAddress">>, <<"Null">>}
        \cup SetOperators \cup SetLikeOperators

\* the comparison sign the switch passes to translateNumeric / translateDate
comparisonSign(operator) ==
    LET name == operator[1]
    IN  IF name \in {"NumericEquals", "DateEquals"} THEN "=="
        ELSE IF name \in {"NumericNotEquals", "DateNotEquals"} THEN "!="
        ELSE IF name \in {"NumericLessThan", "DateLessThan"} THEN "<"
        ELSE IF name \in {"NumericLessThanEquals", "DateLessThanEquals"} THEN "<="
        ELSE IF name \in {"NumericGreaterThan", "DateGreaterThan"} THEN ">"
        ELSE ">="

\* words matching [a-zA-Z0-9_]+ inside a condition key
KeyWords == {"aws", "SourceIp", "Environment", "Team"}

\* sanitizeKey, translator.go 687-691
sanitizeKey(key) ==
    [i \in 1..Len(key) |-> IF key[i] \in KeyWords THEN key[i] ELSE "_"]

\* translateConditionKey, translator.go 655-684
translateConditionKey(key) ==
    IF HasPrefix(key, <<"rosa:ResourceTag/">>)
    THEN <<"resource.tags[\"">> \o TrimPrefix(key, <<"rosa:ResourceTag/">>) \o <<"\"]">>
    ELSE IF HasPrefix(key, <<"rosa:RequestTag/">>)
    THEN <<"context.requestTags[\"">> \o TrimPrefix(key, <<"rosa:RequestTag/">>) \o <<"\"]">>
    ELSE IF key = <<"rosa:TagKeys">> THEN <<"context.tagKeys">>
    ELSE IF key = <<"aws:PrincipalArn">> \/ key = <<"rosa:principalArn">>
    THEN <<"context.principalArn">>
    ELSE IF key = <<"aws:PrincipalAccount">> THEN <<"context.principalAccount">>
    ELSE <<"context.">> \o sanitizeKey(key)

\* fmt's %v of a scalar value
formatValue(value) ==
    IF value.type = "bool" THEN <<IF value.v THEN "true" ELSE "false">> ELSE value.v

\* strings.ReplaceAll(pattern, "?", "*")
replaceQuestionMarks(pattern) ==
    [i \in 1..Len(pattern) |-> IF pattern[i] = "?" THEN "*" ELSE pattern[i]]

\* a translated clause, or the error of the translation
Clause(text) == [err |-> FALSE, text |-> text]
ClauseError == [err |-> TRUE, text |-> <<>>]

\* translateStringEquals, translator.go 342-371
translateStringEquals(key, value, negate) ==
    LET cedarKey == translateConditionKey(key)
        op == IF negate THEN "!=" ELSE "=="
        clauses == [i \in 1..Len(value.v) |->
                       cedarKey \o <<" ", op, " \"">> \o formatValue(value.v[i]) \o <<"\"">>]
    IN  IF value.type = "array"
        THEN IF negate THEN Clause(Join(clauses, <<" && ">>))
             ELSE Clause(<<"(">> \o Join(clauses, <<" || ">>) \o <<")">>)
        ELSE Clause(cedarKey \o <<" ", op, " \"">> \o formatValue(value) \o <<"\"">>)

\* buildLikeClause, translator.go 396-404
buildLikeClause(key, pattern, negate) ==
    IF negate
    THEN <<"!(">> \o key \o <<" like \"">> \o replaceQuestionMarks(pattern) \o <<"\")">>
    ELSE key \o <<" like \"">> \o replaceQuestionMarks(pattern) \o <<"\"">>

\* translateStringLike, translator.go 374-393
translateStringLike(key, value, negate) ==
    LET cedarKey == translateConditionKey(key)
        clauses == [i \in 1..Len(value.v) |->
                       buildLikeClause(cedarKey, formatValue(value.v[i]), negate)]
    IN  IF value.type = "array"
        THEN IF negate THEN Clause(Join(clauses, <<" && ">>))
             ELSE Clause(<<"(">> \o Join(clauses, <<" || ">>) \o <<")">>)
        ELSE Clause(buildLikeClause(cedarKey, formatValue(value), negate))

\* translateBool, translator.go 407-416
translateBool(key, value) ==
    LET boolVal == IF value.type = "bool" /\ value.v THEN "true"
                   ELSE IF value.type = "string" /\ value.v = <<"true">> THEN "true"
                   ELSE "false"
    IN  Clause(translateConditionKey(key) \o <<" == ", boolVal>>)

\* the quoted members of a set operator's list
quotedValues(value) ==
    Join([i \in 1..Len(value.v) |-> <<"\"">> \o formatValue(value.v[i]) \o <<"\"">>],
         <<", ">>)

\* translateForAllValues, translateForAnyValue, translateForAllValuesNot and
\* translateForAnyValueNot, translator.go 419-485
translateSetOperator(operator, key, value) ==
    LET cedarKey == translateConditionKey(key)
        call == IF operator = <<"ForAllValues:StringEquals">> THEN <<".containsAll([">>
                ELSE IF operator = <<"ForAnyValue:StringEquals">> THEN <<".containsAny([">>
                ELSE IF operator = <<"ForAllValues:StringNotEquals">>
                THEN <<".containsAny([">>
                ELSE <<".containsAll([">>
        bang == IF operator \in {<<"ForAllValues:StringNotEquals">>,
                                 <<"ForAnyValue:StringNotEquals">>}
                THEN <<"!">> ELSE <<>>
    IN  IF value.type # "array" THEN ClauseError
        ELSE Clause(bang \o cedarKey \o call \o quotedValues(value) \o <<"])">>)

\* translateForAllValuesLike and translateForAnyValueLike, translator.go 488-544
translateSetLike(key, value) ==
    LET cedarKey == translateConditionKey(key)
        patterns == IF value.type = "string" THEN <<value.v>>
                    ELSE [i \in 1..Len(value.v) |-> formatValue(value.v[i])]
        patternClauses ==
            [i \in 1..Len(patterns) |->
                cedarKey \o <<" like \"">> \o replaceQuestionMarks(patterns[i]) \o <<"\"">>]
    IN  IF value.type \notin {"string", "array"} THEN ClauseError
        ELSE IF Len(patternClauses) = 1 THEN Clause(patternClauses[1])
        ELSE Clause(<<"(">> \o Join(patternClauses, <<" || ">>) \o <<")">>)

\* the strings strconv.ParseInt(v, 10, 64) accepts
IntegerTexts == {<<"5">>, <<"10">>}

\* translateNumeric, translator.go 547-570; a number is its integer part
\* followed by its fraction, and int64() keeps the integer part
translateNumeric(key, value, op) ==
    LET cedarKey == translateConditionKey(key)
    IN  IF value.type = "number"
        THEN Clause(cedarKey \o <<" ", op, " ", value.v[1]>>)
        ELSE IF value.type = "string"
        THEN IF value.v \in IntegerTexts
             THEN Clause(cedarKey \o <<" ", op, " ">> \o value.v)
             ELSE ClauseError
        ELSE ClauseError

\* translateDate, translator.go 573-582
translateDate(key, value, op) ==
    LET cedarKey == translateConditionKey(key)
    IN  IF value.type # "string" THEN ClauseError
        ELSE Clause(<<"datetime(">> \o cedarKey \o <<") ", op, " datetime(\"">>
                        \o value.v \o <<"\")">>)

\* buildIpClause, translator.go 608-613
buildIpClause(key, ipOrCidr, negate) ==
    (IF negate THEN <<"!">> ELSE <<>>)
        \o <<"ip(">> \o key \o <<").isInRange(ip(\"">> \o ipOrCidr \o <<"\"))">>

\* translateIpAddress, translator.go 585-605
translateIpAddress(key, value, negate) ==
    LET cedarKey == translateConditionKey(key)
        clauses == [i \in 1..Len(value.v) |->
                       buildIpClause(cedarKey, formatValue(value.v[i]), negate)]
    IN  IF value.type = "array"
        THEN IF negate THEN Clause(Join(clauses, <<" && ">>))
             ELSE Clause(<<"(">> \o Join(clauses, <<" || ">>) \o <<")">>)
        ELSE Clause(buildIpClause(cedarKey, formatValue(value), negate))

\* translateNull, translator.go 616-638
translateNull(key, value) ==
    LET cedarKey == translateConditionKey(key)
        isNull == IF value.type = "bool" THEN value.v ELSE value.v = <<"true">>
    IN  IF value.type \notin {"bool", "string"} THEN ClauseError
        ELSE IF isNull THEN Clause(<<"!has ">> \o cedarKey)
        ELSE Clause(<<"has ">> \o cedarKey)

\* translateCondition, translator.go 251-339, with translateIfExists, 641-652
RECURSIVE translateCondition(_, _, _)
translateCondition(operator, key, value) ==
    IF HasSuffix(operator, IfExists)
    THEN LET baseCondition == translateCondition(TrimSuffix(operator, IfExists), key, value)
         IN  IF baseCondition.err THEN ClauseError
             ELSE Clause(<<"(!has ">> \o translateConditionKey(key) \o <<" || (">>
                             \o baseCondition.text \o <<"))">>)
    ELSE IF operator \in StringEqualsOperators THEN translateStringEquals(key, value, FALSE)
    ELSE IF operator \in StringNotEqualsOperators THEN translateStringEquals(key, value, TRUE)
    ELSE IF operator \in StringLikeOperators THEN translateStringLike(key, value, FALSE)
    ELSE IF operator \in StringNotLikeOperators THEN translateStringLike(key, value, TRUE)
    ELSE IF operator = <<"Bool">> THEN translateBool(key, value)
    ELSE IF operator \in NumericOperators
    THEN translateNumeric(key, value, comparisonSign(operator))
    ELSE IF operator \in DateOperators
    THEN translateDate(key, value, comparisonSign(operator))
    ELSE IF operator = <<"IpAddress">> THEN translateIpAddress(key, value, FALSE)
    ELSE IF operator = <<"NotIpAddress">> THEN translateIpAddress(key, value, TRUE)
    ELSE IF operator = <<"Null">> THEN translateNull(key, value)
    ELSE IF operator \in SetOperators THEN translateSetOperator(operator, key, value)
    ELSE IF operator \in SetLikeOperators THEN translateSetLike(key, value)
    ELSE ClauseError

\* the orders in which the two nested map ranges of buildWhenClause can visit
\* the entries: the entries of one operator are visited together
ConditionOrders(conditions) ==
    {o \in Orderings(conditions) :
        \A i, j, k \in 1..Len(o) :
            (i < j /\ j < k /\ o[i].operator = o[k].operator)
                => o[j].operator = o[i].operator}

\* the end of buildWhenClause, translator.go 232-247: the first error, or
\* the non-empty clauses joined
joinClauses(out) ==
    IF \E i \in 1..Len(out) : out[i].err THEN ClauseError
    ELSE Clause(Join(SelectSeq([i \in 1..Len(out) |-> out[i].text],
                               LAMBDA c : c # <<>>),
                     <<" && ">>))

\* buildWhenClause, translator.go 228-248; order is the map iteration order
buildWhenClause(order) ==
    joinClauses([i \in 1..Len(order) |->
                    translateCondition(order[i].operator, order[i].key, order[i].value)])

\* the when clauses of translateStatement, translator.go 72-90: the resource
\* wildcard condition, then the statement's conditions
whenClausesOf(resourceCondition, whenClause) ==
    (IF resourceCondition # <<>> THEN <<resourceCondition>> ELSE <<>>)
        \o (IF whenClause # <<>> THEN <<whenClause>> ELSE <<>>)

\* the text translateStatement writes, translator.go 35-98, from the clauses
\* it has built
writeStatement(effect, principalClause, act, res, when) ==
    IF act.err \/ when.err THEN [err |-> TRUE, text |-> <<>>]
    ELSE [err |-> FALSE,
          text |-> <<cedarEffect(effect), " (\n", "  ">>
              \o principalClause
              \o <<",\n", "  ">> \o act.clause
              \o <<",\n", "  ">> \o res.scope \o <<"\n)">>
              \o (IF Len(whenClausesOf(res.condition, when.text)) > 0
                  THEN <<"\nwhen {\n  ">>
                           \o Join(whenClausesOf(res.condition, when.text), <<" && ">>)
                           \o <<"\n}">>
                  ELSE <<>>)
              \o <<";">>]

\* translateStatement, translator.go 34-99; order.actions and order.conditions
\* are the iteration orders of the two maps it ranges over
translateStatement(stmt, principalType, principalID, order) ==
    writeStatement(stmt.Effect,
                   buildPrincipalClause(principalType, principalID),
                   buildActionClause(stmt.Actions, order.actions),
                   buildResourceClauses(stmt.Resources),
                   IF stmt.Conditions # {} THEN buildWhenClause(order.conditions)
                   ELSE Clause(<<>>))

\* the result of TranslateWithPrincipal, translator.go 22-30, from the
\* results of its statements
collectRules(out) ==
    IF \E i \in 1..Len(out) : out[i].err
    THEN [err |-> TRUE, rules |-> <<>>]
    ELSE [err |-> FALSE, rules |-> [i \in 1..Len(out) |-> out[i].text]]

\* TranslateWithPrincipal, translator.go 19-31; orders[i] is the map iteration
\* order seen while statement i is rendered
TranslateWithPrincipal(policy, principalType, principalID, orders) ==
    collectRules([i \in 1..Len(policy.Statements) |->
                     translateStatement(policy.Statements[i], principalType,
                                        principalID, orders[i])])

\* every sequence of iteration orders a translation of the statements can see
RECURSIVE StatementOrders(_)
StatementOrders(stmts) ==
    IF stmts = <<>> THEN {<<>>}
    ELSE {<<[actions |-> a, conditions |-> c]>> \o rest :
              a \in ActionOrders(Head(stmts).Actions),
              c \in ConditionOrders(Head(stmts).Conditions),
              rest \in StatementOrders(Tail(stmts))}

\* the policy text AttachPolicy hands to CreatePolicy, authz.go 538-545
combineRules(cedarPolicies) == Join(cedarPolicies, <<"\n\n">>)

(***************************************************************************)
(* Validator (pkg/authz/policy validation)                                 *)
(***************************************************************************)
\* isValidAction: "*" or ^rosa:[A-Za-z*]+$
isValidAction(action) ==
    \/ action = Star
    \/ /\ Len(action) >= 2
       /\ action[1] = "rosa:"
       /\ \A i \in 2..Len(action) : action[i] \in AlphaTokens \cup {"*"}

\* tokens of the parts of an ARN
RegionTokens == {"us-east-1", "eu-west-1"}
AccountTokens == {"777788889999", "111122223333"}
TypeTokens == {"cluster", "nodepool"}

\* isValidResource: "*" or ^arn:aws:rosa:([a-z0-9\-]+|\*):[0-9*]*:[a-z\-]+/.+$
\* an ARN is <<"arn:aws:rosa:", region, ":", account..., ":", type, "/", tail...>>
isValidResource(resource) ==
    \/ resource = Star
    \/ /\ Len(resource) >= 7
       /\ resource[1] = "arn:aws:rosa:"
       /\ resource[2] \in RegionTokens \cup {"*"}
       /\ resource[3] = ":"
       /\ \E k \in 4..(Len(resource) - 3) :
            /\ \A i \in 4..(k - 1) : resource[i] \in AccountTokens \cup {"*"}
            /\ resource[k] = ":"
            /\ resource[k + 1] \in TypeTokens
            /\ resource[k + 2] = "/"

\* validOperators of validateConditions
validOperators ==
    {<<"StringEquals">>, <<"StringNotEquals">>, <<"StringLike">>, <<"StringNotLike">>,
     <<"ArnEquals">>, <<"ArnLike">>, <<"ArnNotEquals">>, <<"ArnNotLike">>, <<"Bool">>,
     <<"ForAllValues:StringEquals">>, <<"ForAnyValue:StringEquals">>}

\* isValidConditionKey
isValidConditionKey(key) ==
    \/ key \in {<<"rosa:TagKeys">>, <<"aws:PrincipalArn">>, <<"aws:PrincipalAccount">>,
                <<"rosa:principalArn">>}
    \/ HasPrefix(key, <<"rosa:ResourceTag/">>)
    \/ HasPrefix(key, <<"rosa:RequestTag/">>)

\* validateConditions: no error is reported
validateConditions(conditions) ==
    \A c \in conditions : c.operator \in validOperators /\ isValidConditionKey(c.key)

\* validateStatement; earlier is the set of sids of the statements before
\* this one
validateStatement(stmt, earlier) ==
    /\ (stmt.Sid # "" => stmt.Sid \notin earlier)
    /\ stmt.Effect \in {"Allow", "Deny"}
    /\ Len(stmt.Actions) > 0
    /\ \A j \in 1..Len(stmt.Actions) : isValidAction(stmt.Actions[j])
    /\ Len(stmt.Resources) > 0
    /\ \A j \in 1..Len(stmt.Resources) : isValidResource(stmt.Resources[j])
    /\ validateConditions(stmt.Conditions)

\* Validate: result.Valid
Validate(policy) ==
    /\ policy.Version \in {"v0", ""}
    /\ Len(policy.Statements) > 0
    /\ \A i \in 1..Len(policy.Statements) :
          validateStatement(policy.Statements[i],
                            {policy.Statements[j].Sid : j \in 1..(i - 1)})

\* a statement with a Conditions block, and one without
StmtWhen(sid, effect, actions, resources, conditions) ==
    [Sid |-> sid, Effect |-> effect, Actions |-> actions, Resources |-> resources,
     Conditions |-> conditions]
Stmt(sid, effect, actions, resources) == StmtWhen(sid, effect, actions, resources, {})

\* the documents the policy API is called with
DocAllowList ==
    [Version |-> "v0",
     Statements |-> << Stmt("AllowListClusters", "Allow",
                            << <<"rosa:", "List", "Clusters">> >>, <<Star>>) >>]
DocDenyDelete ==
    [Version |-> "v0",
     Statements |-> << Stmt("DenyDelete", "Deny",
                            << <<"rosa:", "Delete", "Cluster">> >>, <<Star>>) >>]
DocBadVersion ==
    [Version |-> "v1",
     Statements |-> << Stmt("", "Allow", << <<"rosa:", "List", "Clusters">> >>, <<Star>>) >>]
Docs == {DocAllowList, DocDenyDelete, DocBadVersion}

(***************************************************************************)
(* Authorize (pkg/authz/authz.go).  One execution is one action; it is     *)
(* written as the chain of its steps, each step an operator that either    *)
(* returns the result of the execution or hands over to the next step.     *)
(* calls is the sequence of collaborator calls made so far, fails the set  *)
(* of calls that fail if this execution makes them, kind how they fail.    *)
(***************************************************************************)
StoreCalls ==
    {"privileged.isPrivilegedInDB", "accountStore.Get", "accountStore.Create",
     "accountStore.Delete", "adminStore.IsAdmin", "adminStore.Add",
     "adminStore.Remove", "memberStore.GetUserGroups", "memberStore.Add",
     "memberStore.Remove", "policyStore.Create", "policyStore.Get",
     "policyStore.Update", "policyStore.Delete", "attachmentStore.Create",
     "attachmentStore.Get", "attachmentStore.Delete",
     "attachmentStore.ListByPolicy"}
EvaluatorCalls ==
    {"avpClient.IsAuthorized", "avpClient.CreatePolicyStore", "avpClient.PutSchema",
     "avpClient.DeletePolicyStore", "avpClient.CreatePolicy",
     "avpClient.UpdatePolicy", "avpClient.DeletePolicy"}
\* the calls Authorize can make
AuthorizeCalls ==
    {"privileged.isPrivilegedInDB", "accountStore.Get", "adminStore.IsAdmin",
     "memberStore.GetUserGroups", "avpClient.IsAuthorized"}

\* no call fails, or this one does: a handler that returns on the first
\* failed call sees at most one failure
OneOf(calls) == {{}} \cup {{c} : c \in calls}

AuthzResult(allowed, err, calls, source) ==
    [allowed |-> allowed, err |-> err, calls |-> calls, source |-> source]

GetUserGroups(accountID, memberARN) ==
    {g \in GroupIds : <<accountID, g, memberARN>> \in members}

\* variant of stepEvaluate that answers a failed evaluator call with a
\* plain deny
stepEvaluateFailClosedSilently(req, groups, calls, fails, kind, decision) ==
    LET c == Append(calls, "avpClient.IsAuthorized") IN
    IF "avpClient.IsAuthorized" \in fails
    THEN AuthzResult(FALSE, NoErr, c, "evaluator")
    ELSE AuthzResult(decision = "ALLOW", NoErr, c, "evaluator")

\* authz.go 157-173: call AVP, map the decision
stepEvaluate(req, groups, calls, fails, kind, decision) ==
    LET c == Append(calls, "avpClient.IsAuthorized") IN
    IF "avpClient.IsAuthorized" \in fails
    THEN AuthzResult(FALSE, Wrap("authorization check failed", kind), c, "none")
    ELSE AuthzResult(decision = "ALLOW", NoErr, c, "evaluator")

\* authz.go 148-155: group memberships of the caller
stepGroups(req, calls, fails, kind, decision) ==
    LET c == Append(calls, "memberStore.GetUserGroups") IN
    IF "memberStore.GetUserGroups" \in fails
    THEN AuthzResult(FALSE, Wrap("failed to get user groups", kind), c, "none")
    ELSE stepEvaluate(req, GetUserGroups(req.AccountID, req.CallerARN), c,
                      fails, kind, decision)

\* variant of stepAdmin that looks the groups up before the admin check
stepAdminAfterGroups(req, calls, fails, kind, decision) ==
    LET c == calls \o <<"memberStore.GetUserGroups", "adminStore.IsAdmin">> IN
    IF fails \cap {"memberStore.GetUserGroups", "adminStore.IsAdmin"} # {}
    THEN AuthzResult(FALSE, Raw(kind), c, "none")
    ELSE IF <<req.AccountID, req.CallerARN>> \in admins
    THEN AuthzResult(TRUE, NoErr, c, "admin")
    ELSE stepEvaluate(req, GetUserGroups(req.AccountID, req.CallerARN), c,
                      fails, kind, decision)

\* authz.go 138-146: admin bypass
stepAdmin(req, calls, fails, kind, decision) ==
    LET c == Append(calls, "adminStore.IsAdmin") IN
    IF "adminStore.IsAdmin" \in fails
    THEN AuthzResult(FALSE, Raw(kind), c, "none")
    ELSE IF <<req.AccountID, req.CallerARN>> \in admins
    THEN AuthzResult(TRUE, NoErr, c, "admin")
    ELSE stepGroups(req, c, fails, kind, decision)

\* variant of stepAccount without the nil check on the account
stepAccountNoGate(req, calls, fails, kind, decision) ==
    LET c == Append(calls, "accountStore.Get") IN
    IF "accountStore.Get" \in fails
    THEN AuthzResult(FALSE, Wrap("failed to get account", kind), c, "none")
    ELSE stepAdmin(req, c, fails, kind, decision)

\* authz.go 128-136: provisioning gate
stepAccount(req, calls, fails, kind, decision) ==
    LET c == Append(calls, "accountStore.Get") IN
    IF "accountStore.Get" \in fails
    THEN AuthzResult(FALSE, Wrap("failed to get account", kind), c, "none")
    ELSE IF ~accounts[req.AccountID].present
    THEN AuthzResult(FALSE, Plain("account not provisioned"), c, "none")
    ELSE stepAdmin(req, c, fails, kind, decision)

\* variant of stepPrivileged that reads the account row of step 2 before it
\* answers
stepPrivilegedAfterAccount(req, calls, fails, kind, decision) ==
    LET c == calls \o <<"privileged.isInConfigmap", "privileged.isPrivilegedInDB",
                        "accountStore.Get">> IN
    IF fails \cap {"privileged.isPrivilegedInDB", "accountStore.Get"} # {}
    THEN AuthzResult(FALSE, Raw(kind), c, "none")
    ELSE IF isInConfigmap(req.AccountID) \/ isPrivilegedInDB(req.AccountID)
    THEN AuthzResult(TRUE, NoErr, c, "privileged")
    ELSE stepAccount(req, calls, fails, kind, decision)

\* authz.go 117-126 with privileged.go 43-51: privileged bypass
stepPrivileged(req, calls, fails, kind, decision) ==
    LET c1 == Append(calls, "privileged.isInConfigmap") IN
    IF isInConfigmap(req.AccountID)
    THEN AuthzResult(TRUE, NoErr, c1, "privileged")
    ELSE LET c2 == Append(c1, "privileged.isPrivilegedInDB") IN
         IF "privileged.isPrivilegedInDB" \in fails
         THEN AuthzResult(FALSE, Raw(kind), c2, "none")
         ELSE IF isPrivilegedInDB(req.AccountID)
         THEN AuthzResult(TRUE, NoErr, c2, "privileged")
         ELSE stepAccount(req, c2, fails, kind, decision)

\* variant of Authorize that lets every request through when the flag is off
AuthorizePassthrough(req, enabled, fails, kind, decision) ==
    IF ~enabled THEN AuthzResult(TRUE, NoErr, <<>>, "disabled")
    ELSE stepPrivileged(req, <<>>, fails, kind, decision)

\* the whole of Authorize; enabled is Config.Enabled, which it does not read
AuthorizeRun(req, enabled, fails, kind, decision) ==
    stepPrivileged(req, <<>>, fails, kind, decision)

Requests ==
    [AccountID : AccountIds, CallerARN : CallerArns,
     Action : {<<"List", "Clusters">>}, Resource : {"*"}, ResourceTags : {{}}]

Authorize ==
    \E req \in Requests, fails \in OneOf(AuthorizeCalls),
       decision \in {"ALLOW", "DENY"} :
      \E kind \in (IF fails = {} THEN {"transport"} ELSE FailureKinds) :
        LET r == AuthorizeRun(req, cfgEnabled, fails, kind, decision) IN
        /\ LazyLoad
        /\ last' = [op |-> "Authorize", req |-> req, enabled |-> cfgEnabled,
                    inConfigmap |-> isInConfigmap(req.AccountID),
                    \* what the same call returns with the flag the other way
                    flipped |-> AuthorizeRun(req, ~cfgEnabled, fails, kind, decision),
                    \* the calls that were made and failed
                    failed |-> fails \cap Range(r.calls),
                    res |-> r]
        /\ UNCHANGED <<cfgEnabled, runtimeVars, file, storeVars, evaluatorVars>>

(***************************************************************************)
(* Account, admin and group-member operations (authz.go 278-445).  The     *)
(* stores behind them are plain table reads and writes.                    *)
(***************************************************************************)
NoPolicyStore == <<>>
PolicyStoreId(n) == <<"ps", n>>
PolicyId(n) == <<"p", n>>
AttachmentId(n) == <<"att", n>>
AvpPolicyId(n) == <<"avp", n>>

IfCall(b, call) == IF b THEN <<call>> ELSE <<>>

\* the least identifier number that is not in used
Fresh(used) ==
    CHOOSE n \in 1..(Cardinality(used) + 1) :
        n \notin used /\ \A m \in 1..(n - 1) : m \in used

\* identifiers something still refers to
usedStores ==
    {ps.id[2] : ps \in policyStores}
        \cup {accounts[a].policyStoreId[2] :
                 a \in {x \in AccountIds : accounts[x].policyStoreId # NoPolicyStore}}
usedPolicies ==
    {p.policyId[2] : p \in policies} \cup {a.policyId[2] : a \in attachments}
usedAttachments == {a.attachmentId[2] : a \in attachments}
usedAvpPolicies ==
    {p.policyId[2] : p \in avpPolicies} \cup {a.avpPolicyId[2] : a \in attachments}

freshStore == Fresh(usedStores)
freshPolicy == Fresh(usedPolicies)
freshAttachment == Fresh(usedAttachments)
freshAvpPolicy == Fresh(usedAvpPolicies)


OpResult(op, arg, calls, fails, err) ==
    [op |-> op, arg |-> arg, calls |-> calls,
     failed |-> fails \cap Range(calls), err |-> err, created |-> <<>>]

\* variant of cleanupOnRowFailure that leaves the policy store behind
cleanupNever(policyStoreID) == FALSE

\* authz.go 317: account.PolicyStoreID != ""
cleanupOnRowFailure(policyStoreID) == policyStoreID # NoPolicyStore

\* EnableAccount, authz.go 278-327
EnableAccount ==
    \E accountID \in EnableIds, isPrivileged \in BOOLEAN,
       fails \in SUBSET {"avpClient.CreatePolicyStore", "avpClient.PutSchema",
                         "avpClient.DeletePolicyStore", "accountStore.Create"} :
        LET kind == "transport"
            createdStore == ~isPrivileged /\ "avpClient.CreatePolicyStore" \notin fails
            psId == IF createdStore THEN PolicyStoreId(freshStore) ELSE NoPolicyStore
            schemaOk == createdStore /\ "avpClient.PutSchema" \notin fails
            rowAttempt == isPrivileged \/ schemaOk
            rowOk == rowAttempt /\ "accountStore.Create" \notin fails
            schemaCleanup == createdStore /\ ~schemaOk
            rowCleanup == rowAttempt /\ ~rowOk /\ cleanupOnRowFailure(psId)
            cleanup == schemaCleanup \/ rowCleanup
            cleanupOk == cleanup /\ "avpClient.DeletePolicyStore" \notin fails
            calls == IfCall(~isPrivileged, "avpClient.CreatePolicyStore")
                     \o IfCall(createdStore, "avpClient.PutSchema")
                     \o IfCall(schemaCleanup, "avpClient.DeletePolicyStore")
                     \o IfCall(rowAttempt, "accountStore.Create")
                     \o IfCall(rowCleanup, "avpClient.DeletePolicyStore")
            err == IF ~isPrivileged /\ ~createdStore
                   THEN Wrap("failed to create policy store", kind)
                   ELSE IF ~rowAttempt
                   THEN Wrap("failed to set policy store schema", kind)
                   ELSE IF ~rowOk THEN Raw(kind)
                   ELSE NoErr
        IN  /\ isPrivileged \/ freshStore \in PolicyStoreNumbers
            /\ accounts' = IF rowOk
                           THEN [accounts EXCEPT ![accountID] =
                                    [present |-> TRUE, privileged |-> isPrivileged,
                                     policyStoreId |-> psId]]
                           ELSE accounts
            /\ policyStores' = IF createdStore /\ ~cleanupOk
                               THEN policyStores \cup {[id |-> psId, schema |-> schemaOk]}
                               ELSE policyStores
            /\ last' = OpResult("EnableAccount",
                                [accountID |-> accountID, isPrivileged |-> isPrivileged],
                                calls, fails, err)
            /\ UNCHANGED <<cfgEnabled, runtimeVars, file, checkerVars, admins, members, policies,
                           attachments, avpPolicies>>

\* DisableAccount, authz.go 330-350
DisableAccount ==
    \E accountID \in EnableIds,
       fails \in SUBSET {"accountStore.Get", "avpClient.DeletePolicyStore",
                         "accountStore.Delete"} :
        LET kind == "transport"
            account == accounts[accountID]
            loaded == "accountStore.Get" \notin fails /\ account.present
            hasStore == loaded /\ account.policyStoreId # NoPolicyStore
            storeGone == hasStore /\ "avpClient.DeletePolicyStore" \notin fails
            rowGone == loaded /\ "accountStore.Delete" \notin fails
            calls == <<"accountStore.Get">>
                     \o IfCall(hasStore, "avpClient.DeletePolicyStore")
                     \o IfCall(loaded, "accountStore.Delete")
            err == IF "accountStore.Get" \in fails THEN Raw(kind)
                   ELSE IF ~account.present THEN Plain("account not found")
                   ELSE IF ~rowGone THEN Raw(kind)
                   ELSE NoErr
        IN  /\ accounts' = IF rowGone THEN [accounts EXCEPT ![accountID] = NoRow]
                           ELSE accounts
            /\ policyStores' = IF storeGone
                               THEN {ps \in policyStores : ps.id # account.policyStoreId}
                               ELSE policyStores
            /\ avpPolicies' = IF storeGone
                              THEN {p \in avpPolicies :
                                        p.policyStoreId # account.policyStoreId}
                              ELSE avpPolicies
            /\ last' = OpResult("DisableAccount", [accountID |-> accountID],
                                calls, fails, err)
            /\ UNCHANGED <<cfgEnabled, runtimeVars, file, checkerVars, admins, members, policies,
                           attachments>>

\* AddAdmin, authz.go 382-389
AddAdmin ==
    \E accountID \in EnableIds, principalARN \in {Alice},
       fails \in SUBSET {"adminStore.Add"} :
        /\ admins' = IF fails = {} THEN admins \cup {<<accountID, principalARN>>}
                     ELSE admins
        /\ last' = OpResult("AddAdmin",
                            [accountID |-> accountID, principalARN |-> principalARN],
                            <<"adminStore.Add">>, fails,
                            IF fails = {} THEN NoErr ELSE Raw("transport"))
        /\ UNCHANGED <<cfgEnabled, runtimeVars, file, checkerVars, accounts, members, policies,
                       attachments, evaluatorVars>>

\* RemoveAdmin, authz.go 392-394
RemoveAdmin ==
    \E accountID \in EnableIds, principalARN \in {Alice},
       fails \in SUBSET {"adminStore.Remove"} :
        /\ admins' = IF fails = {} THEN admins \ {<<accountID, principalARN>>}
                     ELSE admins
        /\ last' = OpResult("RemoveAdmin",
                            [accountID |-> accountID, principalARN |-> principalARN],
                            <<"adminStore.Remove">>, fails,
                            IF fails = {} THEN NoErr ELSE Raw("transport"))
        /\ UNCHANGED <<cfgEnabled, runtimeVars, file, checkerVars, accounts, members, policies,
                       attachments, evaluatorVars>>

\* AddGroupMember, authz.go 428-430
AddGroupMember ==
    \E accountID \in EnableIds, groupID \in GroupIds, memberARN \in {Alice},
       fails \in SUBSET {"memberStore.Add"} :
        /\ members' = IF fails = {} THEN members \cup {<<accountID, groupID, memberARN>>}
                      ELSE members
        /\ last' = OpResult("AddGroupMember",
                            [accountID |-> accountID, groupID |-> groupID,
                             memberARN |-> memberARN],
                            <<"memberStore.Add">>, fails,
                            IF fails = {} THEN NoErr ELSE Raw("transport"))
        /\ UNCHANGED <<cfgEnabled, runtimeVars, file, checkerVars, accounts, admins, policies,
                       attachments, evaluatorVars>>

\* RemoveGroupMember, authz.go 433-435
RemoveGroupMember ==
    \E accountID \in EnableIds, groupID \in GroupIds, memberARN \in {Alice},
       fails \in SUBSET {"memberStore.Remove"} :
        /\ members' = IF fails = {} THEN members \ {<<accountID, groupID, memberARN>>}
                      ELSE members
        /\ last' = OpResult("RemoveGroupMember",
                            [accountID |-> accountID, groupID |-> groupID,
                             memberARN |-> memberARN],
                            <<"memberStore.Remove">>, fails,
                            IF fails = {} THEN NoErr ELSE Raw("transport"))
        /\ UNCHANGED <<cfgEnabled, runtimeVars, file, checkerVars, accounts, admins, policies,
                       attachments, evaluatorVars>>

(***************************************************************************)
(* Policy templates (authz.go 447-501, store/policies.go).  Names and      *)
(* descriptions are carried along by the code and left out here.           *)
(***************************************************************************)
PolicyAccounts == {TenantAccount}
\* the identifiers in use and one that names nothing
PolicyIdInputs == {PolicyId(n) : n \in usedPolicies \cup {freshPolicy}}
AttachmentIdInputs == {AttachmentId(n) : n \in usedAttachments \cup {freshAttachment}}
Targets == {<<"user", Alice>>, <<"group", "G">>, <<"role", "G">>}

PolicyRow(accountID, policyID, doc) ==
    [accountId |-> accountID, policyId |-> policyID, doc |-> doc]

\* PolicyStore.Get: the row or none
policyRows(accountID, policyID) ==
    {p \in policies : p.accountId = accountID /\ p.policyId = policyID}

\* AttachmentStore.ListByPolicy, attachments.go 197-223
ListByPolicy(accountID, policyID) ==
    {a \in attachments : a.accountId = accountID /\ a.policyId = policyID}

\* Policy.GetV0Policy, policies.go 31-37: the JSON written by Create / Update
\* read back; on the fields modelled (strings and lists of strings) the
\* round trip returns what was written
GetV0Policy(row) == row.doc

\* CreatePolicy, authz.go 448-460 with PolicyStore.Create
CreatePolicy ==
    \E accountID \in PolicyAccounts, doc \in Docs,
       fails \in SUBSET {"policyStore.Create"} :
        LET kind == "transport"
            valid == Validate(doc)
            written == valid /\ fails = {}
            calls == IfCall(valid, "policyStore.Create")
            err == IF ~valid THEN Plain("invalid policy")
                   ELSE IF ~written THEN Wrap("failed to create policy", kind)
                   ELSE NoErr
        IN  /\ freshPolicy \in PolicyNumbers
            /\ policies' = IF written
                           THEN policies \cup
                                {PolicyRow(accountID, PolicyId(freshPolicy), doc)}
                           ELSE policies
            /\ last' = OpResult("CreatePolicy", [accountID |-> accountID, doc |-> doc],
                                calls, fails, err)
            /\ UNCHANGED <<cfgEnabled, runtimeVars, file, checkerVars, accounts, admins, members,
                           attachments, evaluatorVars>>

\* UpdatePolicy, authz.go 468-482 with PolicyStore.Update (an UpdateItem
\* without a condition: it writes the row whether or not it existed)
UpdatePolicy ==
    \E accountID \in PolicyAccounts, policyID \in PolicyIdInputs, doc \in Docs,
       fails \in SUBSET {"policyStore.Update"} :
        LET kind == "transport"
            valid == Validate(doc)
            written == valid /\ fails = {}
            calls == IfCall(valid, "policyStore.Update")
            err == IF ~valid THEN Plain("invalid policy")
                   ELSE IF ~written THEN Wrap("failed to update policy", kind)
                   ELSE NoErr
        IN  /\ policyID[2] \in PolicyNumbers
            /\ policies' = IF written
                           THEN (policies \ policyRows(accountID, policyID))
                                \cup {PolicyRow(accountID, policyID, doc)}
                           ELSE policies
            /\ last' = OpResult("UpdatePolicy",
                                [accountID |-> accountID, policyID |-> policyID,
                                 doc |-> doc],
                                calls, fails, err)
            /\ UNCHANGED <<cfgEnabled, runtimeVars, file, checkerVars, accounts, admins, members,
                           attachments, evaluatorVars>>

\* variant of hasAttachments that never finds one
hasAttachmentsNever(accountID, policyID) == FALSE

\* authz.go 491: len(attachments) > 0
hasAttachments(accountID, policyID) == ListByPolicy(accountID, policyID) # {}

\* DeletePolicy, authz.go 485-496
DeletePolicy ==
    \E accountID \in PolicyAccounts, policyID \in PolicyIdInputs,
       fails \in OneOf({"attachmentStore.ListByPolicy", "policyStore.Delete"}) :
        LET kind == "transport"
            listed == "attachmentStore.ListByPolicy" \notin fails
            refused == listed /\ hasAttachments(accountID, policyID)
            deleting == listed /\ ~refused
            deleted == deleting /\ "policyStore.Delete" \notin fails
            calls == <<"attachmentStore.ListByPolicy">>
                     \o IfCall(deleting, "policyStore.Delete")
            err == IF ~listed THEN Wrap("failed to list attachments by policy", kind)
                   ELSE IF refused
                   THEN Plain("cannot delete policy with existing attachments")
                   ELSE IF ~deleted THEN Wrap("failed to delete policy", kind)
                   ELSE NoErr
        IN  /\ policies' = IF deleted THEN policies \ policyRows(accountID, policyID)
                           ELSE policies
            /\ last' = OpResult("DeletePolicy",
                                [accountID |-> accountID, policyID |-> policyID],
                                calls, fails, err)
            /\ UNCHANGED <<cfgEnabled, runtimeVars, file, checkerVars, accounts, admins, members,
                           attachments, evaluatorVars>>

(***************************************************************************)
(* Attachments (authz.go 503-597, store/attachments.go)                    *)
(***************************************************************************)
AttachmentRow(accountID, attachmentID, policyID, targetType, targetID, avpPolicyID) ==
    [accountId |-> accountID, attachmentId |-> attachmentID, policyId |-> policyID,
     targetType |-> targetType, targetId |-> targetID, avpPolicyId |-> avpPolicyID]

\* variant of hasPolicyStore that takes every account
hasPolicyStoreAlways(account) == TRUE

\* authz.go 514: account.PolicyStoreID == "" is refused
hasPolicyStore(account) == account.policyStoreId # NoPolicyStore

\* AttachPolicy, authz.go 504-562
AttachPolicy ==
    \E accountID \in PolicyAccounts, policyID \in PolicyIdInputs, target \in Targets,
       fails \in OneOf({"accountStore.Get", "policyStore.Get",
                        "avpClient.CreatePolicy", "attachmentStore.Create"}) :
        LET kind == "transport"
            account == accounts[accountID]
            accountOk == /\ "accountStore.Get" \notin fails
                         /\ account.present
                         /\ hasPolicyStore(account)
            rows == policyRows(accountID, policyID)
            policyOk == accountOk /\ "policyStore.Get" \notin fails /\ rows # {}
        IN  /\ freshAvpPolicy <= MaxAttachments
            /\ freshAttachment <= MaxAttachments
            /\ \E orders \in (IF policyOk
                              THEN StatementOrders(
                                       GetV0Policy(CHOOSE r \in rows : TRUE).Statements)
                              ELSE {<<>>}) :
                LET v0Policy == GetV0Policy(CHOOSE r \in rows : TRUE)
                    tr == IF policyOk
                          THEN TranslateWithPrincipal(v0Policy, target[1], target[2], orders)
                          ELSE [err |-> TRUE, rules |-> <<>>]
                    translated == policyOk /\ ~tr.err
                    \* the evaluator refuses a policy for a store it does not have
                    created == /\ translated
                               /\ "avpClient.CreatePolicy" \notin fails
                               /\ \E ps \in policyStores : ps.id = account.policyStoreId
                    stored == created /\ "attachmentStore.Create" \notin fails
                    avpId == AvpPolicyId(freshAvpPolicy)
                    row == AttachmentRow(accountID, AttachmentId(freshAttachment),
                                         policyID, target[1], target[2], avpId)
                    calls == <<"accountStore.Get">>
                             \o IfCall(accountOk, "policyStore.Get")
                             \o IfCall(translated, "avpClient.CreatePolicy")
                             \o IfCall(created, "attachmentStore.Create")
                    err == IF "accountStore.Get" \in fails THEN Raw(kind)
                           ELSE IF ~account.present THEN Plain("account not found")
                           ELSE IF ~hasPolicyStore(account)
                           THEN Plain("account has no policy store")
                           ELSE IF "policyStore.Get" \in fails
                           THEN Wrap("failed to get policy", kind)
                           ELSE IF rows = {} THEN Plain("policy not found")
                           ELSE IF ~translated THEN Plain("failed to translate policy")
                           ELSE IF ~created THEN Wrap("failed to create AVP policy", kind)
                           ELSE IF ~stored THEN Wrap("failed to create attachment", kind)
                           ELSE NoErr
                IN  /\ avpPolicies' =
                          IF created
                          THEN avpPolicies \cup
                               {[policyStoreId |-> account.policyStoreId,
                                 policyId |-> avpId,
                                 statement |-> combineRules(tr.rules)]}
                          ELSE avpPolicies
                    /\ attachments' = IF stored THEN attachments \cup {row}
                                      ELSE attachments
                    /\ last' = [OpResult("AttachPolicy",
                                         [accountID |-> accountID, policyID |-> policyID,
                                          targetType |-> target[1],
                                          targetID |-> target[2]],
                                         calls, fails, err)
                                EXCEPT !.created = IF created THEN avpId ELSE <<>>]
                    /\ UNCHANGED <<cfgEnabled, runtimeVars, file, checkerVars, accounts, admins,
                                   members, policies, policyStores>>

\* variant of detachProceeds that returns the evaluator's error
detachStopsOnFailure(avpFailed) == ~avpFailed

\* authz.go 590-592: a failed evaluator DeletePolicy is logged, nothing else
detachProceeds(avpFailed) == TRUE

\* DetachPolicy, authz.go 565-597
DetachPolicy ==
    \E accountID \in PolicyAccounts, attachmentID \in AttachmentIdInputs,
       fails \in SUBSET {"attachmentStore.Get", "accountStore.Get",
                         "avpClient.DeletePolicy", "attachmentStore.Delete"} :
        LET kind == "transport"
            rows == {a \in attachments :
                        a.accountId = accountID /\ a.attachmentId = attachmentID}
            attachmentOk == "attachmentStore.Get" \notin fails /\ rows # {}
            attachment == CHOOSE a \in rows : TRUE
            account == accounts[accountID]
            accountOk == attachmentOk /\ "accountStore.Get" \notin fails
                         /\ account.present
            avpCalled == /\ accountOk
                         /\ attachment.avpPolicyId # <<>>
                         /\ account.policyStoreId # NoPolicyStore
            registered == {p \in avpPolicies :
                              /\ p.policyStoreId = account.policyStoreId
                              /\ p.policyId = attachment.avpPolicyId}
            \* the evaluator fails the call for a policy it does not have
            avpFailed == avpCalled /\ ("avpClient.DeletePolicy" \in fails
                                       \/ registered = {})
            proceeds == accountOk /\ (avpCalled => detachProceeds(avpFailed))
            rowGone == proceeds /\ "attachmentStore.Delete" \notin fails
            calls == <<"attachmentStore.Get">>
                     \o IfCall(attachmentOk, "accountStore.Get")
                     \o IfCall(avpCalled, "avpClient.DeletePolicy")
                     \o IfCall(proceeds, "attachmentStore.Delete")
            err == IF "attachmentStore.Get" \in fails
                   THEN Wrap("failed to get attachment", kind)
                   ELSE IF rows = {} THEN Plain("attachment not found")
                   ELSE IF "accountStore.Get" \in fails THEN Raw(kind)
                   ELSE IF ~account.present THEN Plain("account not found")
                   ELSE IF ~proceeds THEN Wrap("failed to delete AVP policy", kind)
                   ELSE IF ~rowGone THEN Wrap("failed to delete attachment", kind)
                   ELSE NoErr
        IN  /\ avpPolicies' = IF avpCalled /\ ~avpFailed
                              THEN avpPolicies \ registered
                              ELSE avpPolicies
            /\ attachments' = IF rowGone THEN attachments \ rows ELSE attachments
            /\ last' = [op |-> "DetachPolicy",
                        arg |-> [accountID |-> accountID, attachmentID |-> attachmentID],
                        calls |-> calls,
                        failed |-> (fails \cap Range(calls))
                                   \cup (IF avpFailed THEN {"avpClient.DeletePolicy"}
                                         ELSE {}),
                        err |-> err, created |-> <<>>]
            /\ UNCHANGED <<cfgEnabled, runtimeVars, file, checkerVars, accounts, admins, members,
                           policies, policyStores>>

(***************************************************************************)
(* The system.  Authorize reads the checker and the account, admin and     *)
(* member tables; the policy and attachment operations read and write the  *)
(* account, template and attachment tables and the evaluator.  Neither     *)
(* half writes what only the other reads, so each is explored on its own:  *)
(* SpecAuthz is the decision pipeline with the operations that feed it,    *)
(* SpecPolicy the template / attachment orchestration.                     *)
(***************************************************************************)
\* nothing in flight, empty caches
NoGoroutine == 0
NoReads == [lazy |-> <<>>, reloaded |-> <<>>]
RuntimeIdle ==
    /\ goroutines = <<>>
    /\ onceM = NoGoroutine
    /\ lazyLoads = NoReads
    /\ customers = {}
    /\ cache = {}
    /\ now = 0
    /\ agentPolicies = {}

Init ==
    /\ RuntimeIdle
    /\ cfgEnabled \in BOOLEAN
    /\ file = [status |-> "present", accounts |-> {BootstrapAccount}]
    /\ configmapOnce = FALSE
    /\ configmapAccounts = {}
    /\ configmapErr = FALSE
    /\ accounts = [a \in AccountIds |-> NoRow]
    /\ admins = {}
    /\ members = {}
    /\ policies = {}
    /\ attachments = {}
    /\ policyStores = {}
    /\ avpPolicies = {}
    /\ last = [op |-> "New"]

NextAuthz ==
    \/ Authorize
    \/ EnableAccount
    \/ DisableAccount
    \/ AddAdmin
    \/ RemoveAdmin
    \/ AddGroupMember
    \/ RemoveGroupMember

SpecAuthz == Init /\ [][NextAuthz]_vars

\* DefaultConfig: Enabled is true
InitPolicy == Init /\ cfgEnabled = TRUE

NextPolicy ==
    \/ EnableAccount
    \/ DisableAccount
    \/ CreatePolicy
    \/ UpdatePolicy
    \/ DeletePolicy
    \/ AttachPolicy
    \/ DetachPolicy

SpecPolicy == InitPolicy /\ [][NextPolicy]_vars

(***************************************************************************)
(* The evaluator request (authz.go 177-270) and what the evaluator clients *)
(* make of it.  A tag map and an attribute map are sets of <<key, value>>. *)
(***************************************************************************)
EntityIdentifier(type, id) == [EntityType |-> type, EntityId |-> id]
\* an EntityItem with only its Identifier set: no attributes, no parents
EntityItem(identifier) == [Identifier |-> identifier, Attributes |-> {}, Parents |-> {}]

\* buildAVPRequest, authz.go 177-270, for a request without request tags
buildAVPRequest(req, groups, policyStoreID) ==
    LET principal == EntityIdentifier("ROSA::Principal", req.CallerARN)
        resource == EntityIdentifier("ROSA::Resource", req.Resource)
    IN  [PolicyStoreId |-> policyStoreID,
         Principal |-> principal,
         Action |-> [ActionType |-> "ROSA::Action", ActionId |-> req.Action],
         Resource |-> resource,
         Context |-> [principalArn |-> req.CallerARN, principalAccount |-> req.AccountID],
         Entities |-> {EntityItem(principal)}
             \cup {EntityItem(EntityIdentifier("ROSA::Group", g)) : g \in groups}
             \cup (IF req.ResourceTags # {}
                   THEN {[Identifier |-> resource,
                          Attributes |-> {<<"tags", req.ResourceTags>>},
                          Parents |-> {}]}
                   ELSE {})]

uid(identifier) == <<identifier.EntityType, identifier.EntityId>>

\* buildCedarAgentRequest, mock_avp.go 339-390: the entities the cedar-agent
\* client derives from the request
cedarAgentEntities(params) ==
    LET groupUIDs == {uid(e.Identifier) :
                         e \in {x \in params.Entities :
                                   x.Identifier.EntityType \in {"ROSA::Group", "Group"}}}
    IN  {[uid |-> g, attrs |-> {}, parents |-> {}] : g \in groupUIDs}
            \cup (IF groupUIDs # {}
                  THEN {[uid |-> uid(params.Principal), attrs |-> {}, parents |-> groupUIDs]}
                  ELSE {})
            \cup {[uid |-> uid(params.Resource),
                   attrs |-> {<<"arn", params.Resource.EntityId>>},
                   parents |-> {}]}

\* the entities the Verified Permissions service is given: those of the
\* request, as they are
serviceEntities(params) ==
    {[uid |-> uid(e.Identifier), attrs |-> e.Attributes, parents |-> e.Parents] :
        e \in params.Entities}

\* the evaluator clients the authorizer is built with
AvpClients == {"verifiedpermissions", "cedar-agent"}
entitiesSeen(client, params) ==
    IF client = "cedar-agent" THEN cedarAgentEntities(params) ELSE serviceEntities(params)

\* the action id the evaluator is asked about: buildCedarAgentRequest strips
\* the rosa: prefix (mock_avp.go 313-319), the service takes the request's
actionIdSeen(client, params) ==
    IF client = "cedar-agent" THEN TrimPrefix(params.Action.ActionId, <<"rosa:">>)
    ELSE params.Action.ActionId

\* the scope `principal in ROSA::Group::"g"` of a rule rendered for a group
\* binding: the group is among the parents of the principal's entity
principalInGroup(entities, principal, g) ==
    \E e \in entities : e.uid = principal /\ <<"ROSA::Group", g>> \in e.parents

(***************************************************************************)
(* The translator and the validator as functions of their inputs.  The     *)
(* initial state holds one input; ValidateAndTranslate,                     *)
(* TranslateWithPrincipal and expandAction are then applied to it, any     *)
(* number of times, and last holds the outcome of the latest application.  *)
(***************************************************************************)
MaxStatements == 2
MaxConditions == 2

ClusterArn ==
    <<"arn:aws:rosa:", "us-east-1", ":", "777788889999", ":", "cluster", "/", "c1">>
ClusterArnPattern ==
    <<"arn:aws:rosa:", "*", ":", "777788889999", ":", "cluster", "/", "*">>

\* the Effect, Actions and Resources fields the statements are built from
EffectInputs == {"Allow", "Deny", "allow"}
ActionInputs ==
    { <<Star>>,
      << <<"rosa:", "List", "Clusters">> >>,
      << <<"rosa:", "Describe", "*">> >>,
      << <<"rosa:", "List", "Clusters">>, <<"rosa:", "Delete", "Cluster">> >>,
      << <<"rosa:", "Frobnicate">> >>,
      << >> }
ResourceInputs == { <<Star>>, <<ClusterArn>>, <<ClusterArn, ClusterArnPattern>> }

\* condition operators: every operator of the translator, each also with the
\* IfExists suffix, and names the translator does not know
OperatorInputs ==
    translatorOperators \cup {op \o IfExists : op \in translatorOperators}
        \cup {<<"StringMatches">>, <<"StringMatches">> \o IfExists, IfExists}
KeyInputs ==
    {<<"rosa:TagKeys">>, <<"rosa:ResourceTag/", "Environment">>, <<"aws", ":", "SourceIp">>}
String(v) == [type |-> "string", v |-> v]
ValueInputs ==
    {String(<<"Env">>), String(<<"5">>), [type |-> "number", v |-> <<"5">>],
     [type |-> "bool", v |-> TRUE],
     [type |-> "array", v |-> <<String(<<"Env">>), String(<<"Owner">>)>>]}
ConditionInputs == [operator : OperatorInputs, key : KeyInputs, value : ValueInputs]

\* the entries the Conditions blocks with more than one entry are built from
EntryInputs ==
    {[operator |-> <<"StringEquals">>, key |-> <<"rosa:ResourceTag/", "Environment">>,
      value |-> String(<<"Env">>)],
     [operator |-> <<"StringEquals">>, key |-> <<"rosa:ResourceTag/", "Team">>,
      value |-> String(<<"Owner">>)],
     [operator |-> <<"Bool">>, key |-> <<"aws:PrincipalArn">>,
      value |-> [type |-> "bool", v |-> TRUE]]}

\* no two entries of a Go map of maps share operator and key
IsConditions(S) ==
    \A c, d \in S : (c.operator = d.operator /\ c.key = d.key) => c = d
ConditionsInputs ==
    {{}} \cup {{c} : c \in ConditionInputs}
        \cup {S \in SUBSET EntryInputs :
                 Cardinality(S) >= 2 /\ Cardinality(S) <= MaxConditions /\ IsConditions(S)}

\* the statements: every Effect, Actions and Resources without conditions,
\* and every Conditions block on one statement
StatementInputs ==
    {StmtWhen("", e, a, r, {}) : e \in EffectInputs, a \in ActionInputs, r \in ResourceInputs}
        \cup {StmtWhen("", "Allow", << <<"rosa:", "List", "Clusters">> >>, <<Star>>, c) :
                 c \in ConditionsInputs}

\* the statements the documents with more than one statement are built from
SeveralInputs ==
    {StmtWhen("", "Allow", << <<"rosa:", "List", "Clusters">> >>, <<Star>>, {}),
     StmtWhen("", "Deny", << <<"rosa:", "Delete", "Cluster">> >>, <<ClusterArn>>, {}),
     StmtWhen("S", "Allow", << <<"rosa:", "Describe", "*">> >>, <<Star>>, {})}
RECURSIVE SeqsOf(_, _)
SeqsOf(S, n) ==
    IF n = 0 THEN {<<>>} ELSE {<<x>> \o s : x \in S, s \in SeqsOf(S, n - 1)}
StatementsInputs ==
    {<<>>} \cup {<<s>> : s \in StatementInputs}
        \cup UNION {SeqsOf(SeveralInputs, n) : n \in 2..MaxStatements}
DocInputs ==
    [Version : {"v0"}, Statements : StatementsInputs] \cup {DocBadVersion}

\* the principals a document is rendered for
BindingInputs == {<<"user", Alice>>, <<"user", Bob>>, <<"group", "G">>, <<"role", "G">>}

\* the action patterns expandAction is applied to
PatternInputs ==
    {Star, <<"rosa:", "*">>, <<"*", "*">>, <<"rosa:", "rosa:", "*">>}
        \cup {<<"rosa:", w, "*">> : w \in AlphaTokens}
        \cup {<<w, "*">> : w \in AlphaTokens}
        \cup {<<"rosa:", w, v, "*">> : w \in {"Update", "List"}, v \in {"Cluster", "Access", "Tags"}}
        \cup {<<"rosa:">> \o allActions[i] : i \in 1..Len(allActions)}
        \cup {allActions[i] : i \in 1..Len(allActions)}
        \cup {<<"rosa:", "Frobnicate">>, <<"rosa:", "describe", "Cluster">>, <<"rosa:">>, <<>>}

\* the authorization requests buildAVPRequest is applied to
RequestInputs ==
    [AccountID : {TenantAccount}, CallerARN : {Alice},
     Action : {<<"List", "Clusters">>, <<"rosa:", "List", "Clusters">>,
               <<"rosa:", "Tag", "Resource">>},
     Resource : {"*", "arn:aws:rosa:us-east-1:777788889999:cluster/c1"},
     ResourceTags : {{}, {<<"Environment", "dev">>}}]

InitTranslate ==
    /\ RuntimeIdle
    /\ cfgEnabled = TRUE
    /\ file = [status |-> "present", accounts |-> {BootstrapAccount}]
    /\ configmapOnce = FALSE
    /\ configmapAccounts = {}
    /\ configmapErr = FALSE
    /\ accounts = [a \in AccountIds |-> NoRow]
    /\ admins = {}
    /\ members = {}
    /\ policies = {}
    /\ attachments = {}
    /\ policyStores = {}
    /\ avpPolicies = {}
    /\ \/ \E p \in DocInputs, b \in BindingInputs :
            last = [op |-> "Input", policy |-> p,
                    principalType |-> b[1], principalID |-> b[2]]
       \/ \E a \in PatternInputs : last = [op |-> "Pattern", action |-> a]
       \/ \E r \in RequestInputs, G \in SUBSET GroupIds :
            last = [op |-> "Request", req |-> r, groups |-> G]

serviceVars ==
    <<cfgEnabled, file, configmapOnce, configmapAccounts, configmapErr, accounts,
      admins, members, policies, attachments, policyStores, avpPolicies,
      runtimeVars>>

HasDocument == last.op \in {"Input", "TranslateWithPrincipal", "ValidateAndTranslate"}

\* Translator.TranslateWithPrincipal applied to the input
Translate ==
    /\ HasDocument
    /\ \E orders \in StatementOrders(last.policy.Statements) :
          LET res == TranslateWithPrincipal(last.policy, last.principalType,
                                            last.principalID, orders)
          IN  last' = [op |-> "TranslateWithPrincipal", policy |-> last.policy,
                       principalType |-> last.principalType,
                       principalID |-> last.principalID,
                       valid |-> TRUE, err |-> res.err, rules |-> res.rules]
    /\ UNCHANGED serviceVars

\* ValidateAndTranslate applied to the input
ValidateAndTranslate ==
    /\ HasDocument
    /\ LET valid == Validate(last.policy)
       IN  \E orders \in (IF valid THEN StatementOrders(last.policy.Statements)
                          ELSE {<<>>}) :
              LET res == IF valid
                         THEN TranslateWithPrincipal(last.policy, last.principalType,
                                                     last.principalID, orders)
                         ELSE [err |-> TRUE, rules |-> <<>>]
              IN  last' = [op |-> "ValidateAndTranslate", policy |-> last.policy,
                           principalType |-> last.principalType,
                           principalID |-> last.principalID,
                           valid |-> valid, err |-> res.err, rules |-> res.rules]
    /\ UNCHANGED serviceVars

\* Translator.expandAction applied to the input
ExpandAction ==
    /\ last.op \in {"Pattern", "expandAction"}
    /\ last' = [op |-> "expandAction", action |-> last.action,
                expanded |-> expandAction(last.action)]
    /\ UNCHANGED serviceVars

\* the tag keys a request's RequestTags can carry
TagKeyInputs == {"Env", "Owner", "Secret"}

\* buildAVPRequest, authz.go 196-219: the context attributes built from the
\* request's tags; tagKeys is present only when the request has tags
contextOf(requestTagKeys) ==
    IF requestTagKeys # {}
    THEN [principalArn |-> "", requestTags |-> requestTagKeys, tagKeys |-> requestTagKeys]
    ELSE [principalArn |-> ""]

\* the when clause of a rendered rule
whenClauseOf(rule) ==
    LET k == CHOOSE i \in 1..Len(rule) : rule[i] = "\nwhen {\n  "
    IN  SubSeq(rule, k + 1, Len(rule) - 2)

\* the members of the list literal of a containsAll / containsAny call
listMembers(clause) ==
    {clause[i] : i \in {j \in 2..(Len(clause) - 1) :
                          /\ clause[j - 1] = "\""
                          /\ clause[j + 1] = "\""
                          /\ clause[j] # ", "}}

\* the policy language's set operators: S.containsAll(L) holds iff every
\* element of L is in S, S.containsAny(L) iff some element of L is in S
containsAll(S, L) == \A e \in L : e \in S
containsAny(S, L) == \E e \in L : e \in S

\* the value of a rendered set condition over context.tagKeys: "error" when
\* the context has no tagKeys attribute
evaluateSetClause(clause, context) ==
    LET negated == clause[1] = "!"
        body == IF negated THEN Tail(clause) ELSE clause
        holds == IF body[2] = ".containsAll(["
                 THEN containsAll(context.tagKeys, listMembers(body))
                 ELSE containsAny(context.tagKeys, listMembers(body))
    IN  IF "tagKeys" \notin DOMAIN context THEN "error"
        ELSE IF holds # negated THEN "true" ELSE "false"

\* the rendered rule of a one-statement document whose only condition is a
\* set operator on rosa:TagKeys, evaluated for a request with these tags; a
\* rule whose condition is false or fails to evaluate does not apply
EvaluateCondition ==
    /\ last.op \in {"TranslateWithPrincipal", "ValidateAndTranslate"}
    /\ ~last.err
    /\ Len(last.policy.Statements) = 1
    /\ \E c \in last.policy.Statements[1].Conditions :
          /\ last.policy.Statements[1].Conditions = {c}
          /\ c.operator \in SetOperators
          /\ c.key = <<"rosa:TagKeys">>
    /\ \E requestTagKeys \in SUBSET TagKeyInputs :
          LET value == evaluateSetClause(whenClauseOf(last.rules[1]),
                                         contextOf(requestTagKeys))
          IN  last' = [op |-> "EvaluateCondition", policy |-> last.policy,
                       principalType |-> last.principalType,
                       principalID |-> last.principalID,
                       rules |-> last.rules, tagKeys |-> requestTagKeys,
                       value |-> value, satisfied |-> value = "true"]
    /\ UNCHANGED serviceVars

\* authorizerImpl.buildAVPRequest applied to the input
BuildRequest ==
    /\ last.op \in {"Request", "buildAVPRequest"}
    /\ last' = [op |-> "buildAVPRequest", req |-> last.req, groups |-> last.groups,
                request |-> buildAVPRequest(last.req, last.groups, PolicyStoreId(1))]
    /\ UNCHANGED serviceVars

NextTranslate ==
    \/ Translate
    \/ ValidateAndTranslate
    \/ ExpandAction
    \/ EvaluateCondition
    \/ BuildRequest

SpecTranslate == InitTranslate /\ [][NextTranslate]_vars

(***************************************************************************)
(* Properties of Authorize, checked under SpecAuthz.  last is the most     *)
(* recent handler execution; Authorize leaves the tables unchanged, so the *)
(* tables of the state are the tables that execution read.                 *)
(***************************************************************************)
LastAuthorize == last.op = "Authorize"
lastCalls == Range(last.res.calls)
PrivilegedCheckCalls == {"privileged.isInConfigmap", "privileged.isPrivilegedInDB"}

\* C1 as stated: an Authorize execution that allows through the privileged
\* bypass contacts neither the store nor the evaluator.
C1_NoStoreNoEvaluator ==
    (LastAuthorize /\ last.res.source = "privileged")
        => lastCalls \cap (StoreCalls \cup EvaluatorCalls) = {}

\* C1 amended: an Authorize execution that allows through the privileged
\* bypass never contacts the evaluator and makes none of the reads of the
\* later steps (account row, admin, groups); the only store read is the
\* privileged check's own GetItem on the account row, and not even that
\* when the account is in the bootstrap file.
C1_PrivilegedBypass ==
    (LastAuthorize /\ last.res.source = "privileged")
        => /\ last.res.allowed /\ last.res.err = NoErr
           /\ lastCalls \cap EvaluatorCalls = {}
           /\ lastCalls \cap StoreCalls \subseteq {"privileged.isPrivilegedInDB"}
           /\ last.inConfigmap => lastCalls \cap StoreCalls = {}
           /\ last.res.calls \in {<<"privileged.isInConfigmap">>,
                                  <<"privileged.isInConfigmap",
                                    "privileged.isPrivilegedInDB">>}

\* an account privileged through its row was let through
C1_Witness ==
    /\ LastAuthorize /\ last.res.source = "privileged"
    /\ ~last.inConfigmap
    /\ accounts[last.req.AccountID].privileged

C3_AdminBypass ==
    (LastAuthorize /\ last.res.source = "admin")
        => /\ last.res.allowed /\ last.res.err = NoErr
           /\ lastCalls \subseteq PrivilegedCheckCalls
                                    \cup {"accountStore.Get", "adminStore.IsAdmin"}
           /\ "memberStore.GetUserGroups" \notin lastCalls
           /\ lastCalls \cap EvaluatorCalls = {}

\* an admin who is also a group member was let through by the admin bypass
C3_Witness ==
    /\ LastAuthorize /\ last.res.source = "admin"
    /\ GetUserGroups(last.req.AccountID, last.req.CallerARN) # {}

\* the errors Authorize returns for a failed store or evaluator call
TransportErrors ==
    {Raw(k) : k \in FailureKinds}
        \cup {Wrap(m, k) : m \in {"failed to get account", "failed to get user groups",
                                  "authorization check failed"},
                          k \in FailureKinds}
AccountNotProvisioned == Plain("account not provisioned")

\* C4: Authorize for an account that is in neither the bootstrap file nor
\* the account table (both reads answered) ends with the account-not-
\* provisioned error: it does not allow, and the error is none of the errors
\* a failed store or evaluator call produces (it carries no cause).
C4_NotProvisioned ==
    (/\ LastAuthorize
     /\ ~last.inConfigmap
     /\ ~accounts[last.req.AccountID].present
     /\ last.failed = {})
        => /\ ~last.res.allowed
           /\ last.res.err = AccountNotProvisioned
           /\ last.res.err \notin TransportErrors
           /\ last.res.err.cause \notin FailureKinds
           /\ last.res.calls = <<"privileged.isInConfigmap",
                                 "privileged.isPrivilegedInDB", "accountStore.Get">>

\* a request for the account that was never enabled was turned down
C4_Witness ==
    /\ LastAuthorize
    /\ last.req.AccountID = UnknownAccount
    /\ last.res.err = AccountNotProvisioned

\* C5: when a store or evaluator call made during Authorize fails (by
\* transport error, deadline expiry or cancellation), Authorize returns one
\* of the transport errors, carrying the failure as its cause: it neither
\* allows nor returns a plain deny (false without an error).
C5_FailClosed ==
    (LastAuthorize /\ last.failed # {})
        => /\ ~last.res.allowed
           /\ last.res.err # NoErr
           /\ last.res.err \in TransportErrors
           /\ last.res.err # AccountNotProvisioned

\* the evaluator call ran into its deadline for a caller who is no admin
C5_Witness ==
    /\ LastAuthorize
    /\ last.failed = {"avpClient.IsAuthorized"}
    /\ last.res.err = Wrap("authorization check failed", "deadline")

(***************************************************************************)
(* Properties of the template and attachment operations, checked under     *)
(* SpecPolicy.                                                             *)
(***************************************************************************)
\* C6: DeletePolicy(acct, policyId) whose store calls succeed fails iff an
\* attachment row references (acct, policyId) when it is called; when one
\* does, the template table is left as it was (also when the listing
\* fails); when none does and the store calls succeed, no row (acct,
\* policyId) is left.  DeletePolicy never touches the attachment rows.
C6_DeleteGuard ==
    [][ last'.op = "DeletePolicy" =>
          LET accountID == last'.arg.accountID
              policyID == last'.arg.policyID
              referenced == ListByPolicy(accountID, policyID) # {}
          IN  /\ last'.failed = {} => (last'.err # NoErr <=> referenced)
              /\ referenced => policies' = policies
              /\ (referenced /\ last'.failed = {})
                    => last'.err = Plain("cannot delete policy with existing attachments")
              /\ (~referenced /\ last'.failed = {})
                    => ~\E p \in policies' :
                           p.accountId = accountID /\ p.policyId = policyID
              /\ attachments' = attachments
      ]_vars

\* DeletePolicy was refused for a template that has an attachment, and the
\* template row is still there
C6_Witness ==
    /\ last.op = "DeletePolicy"
    /\ last.err = Plain("cannot delete policy with existing attachments")
    /\ policyRows(last.arg.accountID, last.arg.policyID) # {}
    /\ ListByPolicy(last.arg.accountID, last.arg.policyID) # {}

\* the attachment rows of an account and the policies registered in its
\* policy store name each other, one to one
registeredFor(accountID) ==
    {p \in avpPolicies : p.policyStoreId = accounts[accountID].policyStoreId}
attachmentsOf(accountID) == {a \in attachments : a.accountId = accountID}
OneToOne(accountID) ==
    /\ \A a \in attachmentsOf(accountID) :
          \E p \in registeredFor(accountID) : p.policyId = a.avpPolicyId
    /\ \A p \in registeredFor(accountID) :
          Cardinality({a \in attachmentsOf(accountID) :
                          a.avpPolicyId = p.policyId}) = 1

\* C7: every AttachPolicy and DetachPolicy execution, failed calls included,
\* that starts with the attachment rows and the registered evaluator
\* policies of the account in 1:1 correspondence ends with them in 1:1
\* correspondence (so that every sequence of them from an account without
\* attachments keeps it).
C7_OneToOnePreserved ==
    [][ \A accountID \in PolicyAccounts :
          (/\ last'.op \in {"AttachPolicy", "DetachPolicy"}
           /\ last'.arg.accountID = accountID
           /\ OneToOne(accountID))
            => OneToOne(accountID)' ]_vars

\* C8: after UpdatePolicy(acct, policyId, newDoc) returned success, for
\* every attachment row of (acct, policyId) the evaluator UpdatePolicy was
\* issued and the registered policy is the translation of newDoc under the
\* row's binding.
C8_UpdatePropagates ==
    (last.op = "UpdatePolicy" /\ last.err = NoErr)
        => \A a \in ListByPolicy(last.arg.accountID, last.arg.policyID) :
              /\ "avpClient.UpdatePolicy" \in Range(last.calls)
              /\ \A p \in registeredFor(a.accountId) :
                    p.policyId = a.avpPolicyId
                      => \E orders \in StatementOrders(last.arg.doc.Statements) :
                            p.statement =
                                combineRules(TranslateWithPrincipal(
                                    last.arg.doc, a.targetType, a.targetId,
                                    orders).rules)

\* C9: in AttachPolicy the evaluator CreatePolicy precedes the row insert,
\* and when the insert fails after it, a compensating evaluator DeletePolicy
\* is issued and the policy just created is no longer registered.
C9_Compensation ==
    (last.op = "AttachPolicy" /\ "attachmentStore.Create" \in last.failed)
        => /\ \E i, j \in 1..Len(last.calls) :
                 /\ i < j
                 /\ last.calls[i] = "avpClient.CreatePolicy"
                 /\ last.calls[j] = "attachmentStore.Create"
           /\ "avpClient.DeletePolicy" \in Range(last.calls)
           /\ ~\E p \in avpPolicies : p.policyId = last.created

\* DetachPolicy found the attachment and the account
DetachLoaded ==
    /\ last.op = "DetachPolicy"
    /\ last.failed \cap {"attachmentStore.Get", "accountStore.Get"} = {}
    /\ last.err \notin {Plain("attachment not found"), Plain("account not found")}
detachedRowGone ==
    ~\E a \in attachments :
        /\ a.accountId = last.arg.accountID
        /\ a.attachmentId = last.arg.attachmentID
DetachCallsWithEvaluator ==
    <<"attachmentStore.Get", "accountStore.Get", "avpClient.DeletePolicy",
      "attachmentStore.Delete">>
DetachCallsWithoutEvaluator ==
    <<"attachmentStore.Get", "accountStore.Get", "attachmentStore.Delete">>

\* C10 as stated: DetachPolicy on an existing attachment of an existing
\* account calls the evaluator DeletePolicy and then deletes the row, and
\* (the row delete succeeding) returns success with the row gone whether or
\* not the evaluator call failed.
C10_AlwaysAttemptsEvaluator ==
    DetachLoaded
        => /\ last.calls = DetachCallsWithEvaluator
           /\ "attachmentStore.Delete" \notin last.failed
                 => last.err = NoErr /\ detachedRowGone

\* C10 amended: DetachPolicy on an existing attachment of an existing
\* account calls the evaluator DeletePolicy first exactly when the account
\* has a policy store id, and then always issues the row delete; a failed
\* evaluator DeletePolicy does not stop it; when the row delete succeeds the
\* row is gone and DetachPolicy returns success, otherwise it returns the
\* row delete's error.
C10_BestEffortDetach ==
    DetachLoaded
        => /\ accounts[last.arg.accountID].policyStoreId # NoPolicyStore
                 => last.calls = DetachCallsWithEvaluator
           /\ accounts[last.arg.accountID].policyStoreId = NoPolicyStore
                 => last.calls = DetachCallsWithoutEvaluator
           /\ "attachmentStore.Delete" \notin last.failed
                 => last.err = NoErr /\ detachedRowGone
           /\ "attachmentStore.Delete" \in last.failed
                 => last.err = Wrap("failed to delete attachment", "transport")

\* the evaluator DeletePolicy failed and DetachPolicy returned success
C10_Witness ==
    /\ DetachLoaded
    /\ "avpClient.DeletePolicy" \in last.failed
    /\ last.err = NoErr
    /\ detachedRowGone

\* position of the first call named c in calls, 0 when it was not made
CallIndex(calls, c) ==
    IF c \in Range(calls)
    THEN CHOOSE i \in 1..Len(calls) :
             calls[i] = c /\ \A j \in 1..(i - 1) : calls[j] # c
    ELSE 0

\* C11: EnableAccount for a non-privileged account calls CreatePolicyStore,
\* then PutSchema, then writes the account row, with the id of the store it
\* created; when it returns an error the account table is as it was and,
\* if it created a policy store, a DeletePolicyStore was issued after the
\* creation.  For a privileged account it makes no evaluator call and
\* writes a row with an empty policyStoreId.
C11_EnableAccount ==
    [][ last'.op = "EnableAccount" =>
          LET accountID == last'.arg.accountID
              calls == last'.calls
              createdStore == /\ "avpClient.CreatePolicyStore" \in Range(calls)
                              /\ "avpClient.CreatePolicyStore" \notin last'.failed
          IN  /\ (~last'.arg.isPrivileged /\ last'.err = NoErr)
                    => /\ calls = <<"avpClient.CreatePolicyStore",
                                   "avpClient.PutSchema", "accountStore.Create">>
                       /\ accounts'[accountID].present
                       /\ ~accounts'[accountID].privileged
                       /\ accounts'[accountID].policyStoreId # NoPolicyStore
                       /\ \E ps \in policyStores' :
                             /\ ps.id = accounts'[accountID].policyStoreId
                             /\ ps.schema
                             /\ ps \notin policyStores
              /\ last'.err # NoErr
                    => /\ accounts' = accounts
                       /\ createdStore
                             => CallIndex(calls, "avpClient.DeletePolicyStore")
                                    > CallIndex(calls, "avpClient.CreatePolicyStore")
              /\ last'.arg.isPrivileged
                    => /\ Range(calls) \cap EvaluatorCalls = {}
                       /\ policyStores' = policyStores
                       /\ last'.err = NoErr
                             => accounts'[accountID] =
                                    [present |-> TRUE, privileged |-> TRUE,
                                     policyStoreId |-> NoPolicyStore]
      ]_vars

\* the row write of a non-privileged EnableAccount failed and the policy
\* store it had created was deleted again
C11_Witness ==
    /\ last.op = "EnableAccount"
    /\ ~last.arg.isPrivileged
    /\ last.failed = {"accountStore.Create"}
    /\ last.calls = <<"avpClient.CreatePolicyStore", "avpClient.PutSchema",
                      "accountStore.Create", "avpClient.DeletePolicyStore">>
    /\ policyStores = {}

\* C12: AttachPolicy on an account without a row, on an account whose
\* policyStoreId is empty, or for a template that has no row returns an
\* error and changes nothing: no evaluator CreatePolicy is issued and no
\* attachment row is written.
C12_AttachRejected ==
    [][ last'.op = "AttachPolicy" =>
          LET account == accounts[last'.arg.accountID] IN
          (\/ ~account.present
           \/ account.policyStoreId = NoPolicyStore
           \/ policyRows(last'.arg.accountID, last'.arg.policyID) = {})
            => /\ last'.err # NoErr
               /\ "avpClient.CreatePolicy" \notin Range(last'.calls)
               /\ "attachmentStore.Create" \notin Range(last'.calls)
               /\ UNCHANGED <<accounts, admins, members, policies, attachments,
                              policyStores, avpPolicies>>
      ]_vars

\* AttachPolicy of an existing template was refused for a privileged account
C12_Witness ==
    /\ last.op = "AttachPolicy"
    /\ last.err = Plain("account has no policy store")
    /\ accounts[last.arg.accountID].privileged
    /\ policyRows(last.arg.accountID, last.arg.policyID) # {}

(***************************************************************************)
(* Validator and translator                                                *)
(***************************************************************************)
LastValidateAndTranslate == last.op = "ValidateAndTranslate"
LastTranslate == last.op = "TranslateWithPrincipal"

\* C13: validator soundness: whenever ValidateAndTranslate finds the
\* document valid, the translation succeeds, so that ValidateAndTranslate
\* fails only with a validation failure.
C13_ValidatorSound == (LastValidateAndTranslate /\ last.valid) => ~last.err

\* translateCondition does not reach the default case of its switch
RECURSIVE lowers(_)
lowers(operator) ==
    IF HasSuffix(operator, IfExists) THEN lowers(TrimSuffix(operator, IfExists))
    ELSE operator \in translatorOperators

\* the only entry of the Conditions block of the only statement
TheCondition == CHOOSE c \in last.policy.Statements[1].Conditions : TRUE
OneCondition ==
    /\ Len(last.policy.Statements) = 1
    /\ Cardinality(last.policy.Statements[1].Conditions) = 1

\* C14: on a statement that is valid but for its condition operator, Validate
\* accepts the operator exactly when the translator lowers it: every operator
\* of the translator, with or without the IfExists suffix, is accepted (so
\* StringEqualsIfExists on rosa:ResourceTag/Environment is), and every other
\* operator is rejected.
C14_OperatorSets ==
    (LastValidateAndTranslate /\ OneCondition /\ isValidConditionKey(TheCondition.key))
        => (last.valid <=> lowers(TheCondition.operator))

\* C15: deterministic rendering: two invocations of TranslateWithPrincipal
\* on equal (document, binding) inputs return the same outcome and the same
\* rule texts.
C15_Deterministic ==
    [][(/\ LastTranslate
        /\ LastTranslate'
        /\ last'.policy = last.policy
        /\ last'.principalType = last.principalType
        /\ last'.principalID = last.principalID)
          => (last'.err = last.err /\ last'.rules = last.rules)]_vars

\* C16: a successful TranslateWithPrincipal on a document with n statements
\* returns exactly n rules; rule i is the rendering of statement i, in input
\* order, and starts with permit when statement i has effect Allow and with
\* forbid when it has effect Deny.
C16_RulePerStatement ==
    (LastTranslate /\ ~last.err)
        => LET stmts == last.policy.Statements
           IN  /\ Len(last.rules) = Len(stmts)
               /\ \E orders \in StatementOrders(stmts) :
                     \A i \in 1..Len(stmts) :
                        last.rules[i] = translateStatement(stmts[i], last.principalType,
                                                           last.principalID, orders[i]).text
               /\ \A i \in 1..Len(stmts) :
                     /\ stmts[i].Effect = "Allow" => last.rules[i][1] = "permit"
                     /\ stmts[i].Effect = "Deny" => last.rules[i][1] = "forbid"

\* a two-statement document, Allow then Deny, has been translated
C16_Witness ==
    /\ LastTranslate
    /\ ~last.err
    /\ Len(last.policy.Statements) = 2
    /\ last.policy.Statements[1].Effect = "Allow"
    /\ last.policy.Statements[2].Effect = "Deny"
    /\ Len(last.rules) = 2
    /\ last.rules[1][1] = "permit"
    /\ last.rules[2][1] = "forbid"

LastExpand == last.op = "expandAction"
startsWith(name, x) ==
    Len(x) <= Len(name) /\ \A i \in 1..Len(x) : name[i] = x[i]
catalog == {allActions[i] : i \in 1..Len(allActions)}

principalClauseOf(rule) == SubSeq(rule, 4, 6)
UserIds == {b[2] : b \in {c \in BindingInputs : c[1] = "user"}}

\* C18: principal binding injectivity: a document rendered for user A and the
\* same document rendered for another user B give different rules, and the
\* principal clause of every rule is determined by the binding alone:
\* principal == ROSA::Principal::"<arn>" for a user and
\* principal in ROSA::Group::"<groupId>" for a group.
C18_BindingInjective ==
    (LastTranslate /\ ~last.err /\ Len(last.policy.Statements) >= 1)
        => /\ last.principalType = "user" =>
                 \A B \in UserIds \ {last.principalID} :
                    \A orders \in StatementOrders(last.policy.Statements) :
                       TranslateWithPrincipal(last.policy, "user", B, orders).rules
                           # last.rules
           /\ \A i \in 1..Len(last.rules) :
                 /\ last.principalType = "user" =>
                       principalClauseOf(last.rules[i])
                           = <<"principal == ROSA::Principal::\"", last.principalID, "\"">>
                 /\ last.principalType = "group" =>
                       principalClauseOf(last.rules[i])
                           = <<"principal in ROSA::Group::\"", last.principalID, "\"">>

\* a two-statement document has been rendered for the user alice
C18_Witness ==
    /\ LastTranslate
    /\ ~last.err
    /\ last.principalType = "user"
    /\ last.principalID = Alice
    /\ Len(last.rules) = 2
    /\ \A i \in 1..2 : last.rules[i][5] = Alice

\* the template of the scenario: ForAllValues:StringEquals on rosa:TagKeys
\* with the list [Env, Owner]
TagKeysTemplate ==
    /\ last.op = "EvaluateCondition"
    /\ \E c \in last.policy.Statements[1].Conditions :
          /\ c.operator = <<"ForAllValues:StringEquals">>
          /\ c.value = [type |-> "array", v |-> <<String(<<"Env">>), String(<<"Owner">>)>>]

\* C19: for a template with ForAllValues:StringEquals rosa:TagKeys =
\* [Env, Owner], the emitted condition is satisfied by a request iff the
\* request's tag keys are a subset of {Env, Owner}: tag keys {Env} satisfy
\* it and tag keys containing Secret do not.
C19_ForAllValuesSubset ==
    TagKeysTemplate => (last.satisfied <=> last.tagKeys \subseteq {"Env", "Owner"})

\* the request of the latest Authorize execution, which reached the evaluator
lastGroups == GetUserGroups(last.req.AccountID, last.req.CallerARN)
lastRequest ==
    buildAVPRequest(last.req, lastGroups, accounts[last.req.AccountID].policyStoreId)

\* C20: the request Authorize builds for a caller with group memberships G
\* has one entity per group id in G and, when G is not empty, one principal
\* entity whose parents are exactly the group ids in G, so that, whichever
\* evaluator client is in use, a rule rendered for group g applies to the
\* caller iff g is in G (a member of G is allowed ListClusters by a template
\* attached to G).
C20_GroupParents ==
    (LastAuthorize /\ "avpClient.IsAuthorized" \in lastCalls)
        => LET G == lastGroups
               principals == {e \in lastRequest.Entities :
                                 e.Identifier.EntityType = "ROSA::Principal"}
           IN  /\ {e.Identifier.EntityId :
                      e \in {x \in lastRequest.Entities :
                                x.Identifier.EntityType = "ROSA::Group"}} = G
               /\ G # {} =>
                     /\ Cardinality(principals) = 1
                     /\ \A e \in principals :
                           e.Parents = {EntityIdentifier("ROSA::Group", g) : g \in G}
               /\ \A client \in AvpClients, g \in GroupIds :
                     principalInGroup(entitiesSeen(client, lastRequest),
                                      uid(lastRequest.Principal), g) <=> g \in G

(***************************************************************************)
(* The evaluator request                                                   *)
(***************************************************************************)
LastBuildRequest == last.op = "buildAVPRequest"

\* C21: the evaluator is asked about the action id without its namespace
\* prefix, whichever evaluator client is in use: request actions rosa:X and X
\* both give the action id X, the id the translator renders in rules for the
\* pattern rosa:X.
C21_ActionIdStripped ==
    LastBuildRequest =>
        LET X == IF Len(last.req.Action) >= 1 /\ last.req.Action[1] = "rosa:"
                 THEN Tail(last.req.Action) ELSE last.req.Action
        IN  \A client \in AvpClients :
               /\ actionIdSeen(client, last.request) = X
               /\ <<actionIdSeen(client, last.request)>> = expandAction(<<"rosa:">> \o X)

\* C22: for every authorization request and whichever evaluator client is in
\* use, the entities contain a resource entity with the request's resource
\* as id that carries both the attribute arn = the resource and the
\* attribute tags = the request's resource tags, also when there are none.
C22_ResourceEntity ==
    LastBuildRequest =>
        \A client \in AvpClients :
           \E e \in entitiesSeen(client, last.request) :
              /\ e.uid = <<"ROSA::Resource", last.req.Resource>>
              /\ <<"arn", last.req.Resource>> \in e.attrs
              /\ <<"tags", last.req.ResourceTags>> \in e.attrs

(***************************************************************************)
(* Attachment target types                                                 *)
(***************************************************************************)
\* the principal clause of the first rule of an evaluator policy
policyPrincipalClause(p) == SubSeq(p.statement, 4, 6)

\* C23: every attachment row has targetType user or group and the evaluator
\* policy created for it constrains the principal to the row's targetId; an
\* AttachPolicy call with any other targetType creates no attachment row and
\* no evaluator rule whose principal scope is the unconstrained principal.
C23_TargetTypeConstrained ==
    /\ \A r \in attachments :
          /\ r.targetType \in {"user", "group"}
          /\ \A p \in avpPolicies :
                p.policyId = r.avpPolicyId =>
                   policyPrincipalClause(p) =
                      IF r.targetType = "user"
                      THEN <<"principal == ROSA::Principal::\"", r.targetId, "\"">>
                      ELSE <<"principal in ROSA::Group::\"", r.targetId, "\"">>
    /\ (last.op = "AttachPolicy" /\ last.arg.targetType \notin {"user", "group"})
          => /\ last.created = <<>>
             /\ \A p \in avpPolicies : p.statement[4] # "principal"

(***************************************************************************)
(* The privileged checker under concurrent calls.  Each call runs in its   *)
(* own goroutine and takes the steps of IsPrivileged or ReloadConfigmap    *)
(* one at a time; the bootstrap file changes on disk between steps.        *)
(* sync.Once is a done flag (configmapOnce) read without the lock and a    *)
(* mutex (onceM) under which the flag is read again and the function run.  *)
(***************************************************************************)
\* goroutines calling into one Checker at a time
MaxGoroutines == 2
Goroutines == 1..MaxGoroutines
Idle == [pc |-> "idle"]

FileInputs ==
    {[status |-> "present", accounts |-> {BootstrapAccount}],
     [status |-> "missing", accounts |-> {}],
     [status |-> "unreadable", accounts |-> {}]}
CheckedAccounts == {BootstrapAccount}

\* variant of onceDone that never takes the call as done
onceNeverDone(done) == FALSE

\* sync.Once: Do runs the function only while the done flag is unset
onceDone(done) == done

\* what loadConfigmap returns for a file as it was when opened
loadOf(f) ==
    IF f.status = "missing" THEN [accounts |-> {}, err |-> FALSE]
    ELSE IF f.status = "unreadable" THEN [accounts |-> {}, err |-> TRUE]
    ELSE [accounts |-> f.accounts, err |-> FALSE]

InitChecker ==
    /\ cfgEnabled = TRUE
    /\ file \in FileInputs
    /\ configmapOnce = FALSE
    /\ configmapAccounts = {}
    /\ configmapErr = FALSE
    /\ accounts = [a \in AccountIds |-> NoRow]
    /\ admins = {}
    /\ members = {}
    /\ policies = {}
    /\ attachments = {}
    /\ policyStores = {}
    /\ avpPolicies = {}
    /\ last = [op |-> "New"]
    /\ goroutines = [g \in Goroutines |-> Idle]
    /\ onceM = NoGoroutine
    /\ lazyLoads = NoReads
    /\ customers = {}
    /\ cache = {}
    /\ now = 0
    /\ agentPolicies = {}

checkerFrame ==
    <<cfgEnabled, accounts, admins, members, policies, attachments, policyStores,
      avpPolicies, customers, cache, now, agentPolicies>>

\* the bootstrap file is replaced on disk
WriteFile ==
    /\ \E f \in FileInputs \ {file} : file' = f
    /\ UNCHANGED <<checkerVars, last, goroutines, onceM, lazyLoads, checkerFrame>>

\* IsPrivileged is entered, privileged.go 43
CallIsPrivileged ==
    \E g \in Goroutines, accountID \in CheckedAccounts :
        /\ goroutines[g] = Idle
        /\ goroutines' = [goroutines EXCEPT ![g] =
               [pc |-> "Do", op |-> "IsPrivileged", accountID |-> accountID,
                reloaded |-> lazyLoads.reloaded]]
        /\ UNCHANGED <<file, checkerVars, last, onceM, lazyLoads, checkerFrame>>

\* ReloadConfigmap is entered, privileged.go 128
CallReloadConfigmap ==
    \E g \in Goroutines :
        /\ goroutines[g] = Idle
        /\ goroutines' = [goroutines EXCEPT ![g] =
               [pc |-> "open", op |-> "ReloadConfigmap"]]
        /\ UNCHANGED <<file, checkerVars, last, onceM, lazyLoads, checkerFrame>>

\* configmapOnce.Do, privileged.go 55: the done flag read without the lock
OnceDo ==
    \E g \in Goroutines :
        /\ goroutines[g].pc = "Do"
        /\ goroutines' = [goroutines EXCEPT ![g].pc =
               IF onceDone(configmapOnce) THEN "check" ELSE "lock"]
        /\ UNCHANGED <<file, checkerVars, last, onceM, lazyLoads, checkerFrame>>

\* configmapOnce.Do, privileged.go 55: the mutex is taken and the flag read
\* again; a goroutine that finds it set unlocks and goes on
OnceLock ==
    \E g \in Goroutines :
        /\ goroutines[g].pc = "lock"
        /\ onceM = NoGoroutine
        /\ IF onceDone(configmapOnce)
           THEN /\ goroutines' = [goroutines EXCEPT ![g].pc = "check"]
                /\ UNCHANGED onceM
           ELSE /\ goroutines' = [goroutines EXCEPT ![g].pc = "open"]
                /\ onceM' = g
        /\ UNCHANGED <<file, checkerVars, last, lazyLoads, checkerFrame>>

\* the result a goroutine hands back, with what it was called with
Returned(g, result) == [op |-> goroutines[g].op] @@ result

\* loadConfigmap, privileged.go 70-79: the file is opened
OpenFile ==
    \E g \in Goroutines :
        LET me == goroutines[g]
            opened == file.status = "present"
            next == [me EXCEPT !.pc = IF opened THEN "scan" ELSE "loaded"]
                    @@ [loaded |-> [accounts |-> {}, err |-> file.status = "unreadable"],
                        lines |-> file.accounts]
        IN  /\ me.pc = "open"
            /\ lazyLoads' = IF me.op = "IsPrivileged"
                            THEN [lazyLoads EXCEPT !.lazy = Append(@, file)]
                            ELSE lazyLoads
            /\ goroutines' = [goroutines EXCEPT ![g] = next]
            /\ UNCHANGED <<file, checkerVars, last, onceM, checkerFrame>>

\* loadConfigmap, privileged.go 82-97: one line is scanned into the local
\* map, or the scanner is at the end of the file
ScanLine ==
    \E g \in Goroutines :
        LET me == goroutines[g]
            line == CHOOSE l \in me.lines : TRUE
        IN  /\ me.pc = "scan"
            /\ goroutines' = [goroutines EXCEPT ![g] =
                   IF me.lines = {} THEN [me EXCEPT !.pc = "loaded"]
                   ELSE [me EXCEPT !.lines = @ \ {line},
                                   !.loaded.accounts = @ \cup {line}]]
            /\ UNCHANGED <<file, checkerVars, last, onceM, lazyLoads, checkerFrame>>

\* privileged.go 56: the function of configmapOnce.Do assigns both fields,
\* the done flag is set and the mutex released
LazyPublish ==
    \E g \in Goroutines :
        LET me == goroutines[g] IN
        /\ me.pc = "loaded"
        /\ me.op = "IsPrivileged"
        /\ configmapAccounts' = me.loaded.accounts
        /\ configmapErr' = me.loaded.err
        /\ configmapOnce' = TRUE
        /\ onceM' = NoGoroutine
        /\ goroutines' = [goroutines EXCEPT ![g].pc = "check"]
        /\ UNCHANGED <<file, last, lazyLoads, checkerFrame>>

\* ReloadConfigmap, privileged.go 130-134: an error is returned, otherwise
\* the set is assigned and nil returned
ReloadReturn ==
    \E g \in Goroutines :
        LET me == goroutines[g] IN
        /\ me.pc = "loaded"
        /\ me.op = "ReloadConfigmap"
        /\ configmapAccounts' = IF me.loaded.err THEN configmapAccounts
                                ELSE me.loaded.accounts
        /\ lazyLoads' = IF me.loaded.err THEN lazyLoads
                        ELSE [lazyLoads EXCEPT !.reloaded = <<me.loaded.accounts>>]
        /\ last' = Returned(g, [err |-> me.loaded.err])
        /\ goroutines' = [goroutines EXCEPT ![g] = Idle]
        /\ UNCHANGED <<file, configmapOnce, configmapErr, onceM, checkerFrame>>

\* isInConfigmap, privileged.go 59-65, and IsPrivileged, privileged.go 45-50:
\* a member of the set is privileged, for the others the table is read
CheckMembership ==
    \E g \in Goroutines, dbFails \in BOOLEAN :
        LET me == goroutines[g]
            exists == (~configmapErr) /\ me.accountID \in configmapAccounts
        IN  /\ me.pc = "check"
            /\ exists => ~dbFails
            /\ last' = Returned(g,
                   [accountID |-> me.accountID,
                    inConfigmap |-> exists,
                    reloaded |-> me.reloaded,
                    latest |-> lazyLoads.reloaded,
                    result |-> exists \/ (~dbFails /\ isPrivilegedInDB(me.accountID)),
                    err |-> dbFails])
            /\ goroutines' = [goroutines EXCEPT ![g] = Idle]
            /\ UNCHANGED <<file, checkerVars, onceM, lazyLoads, checkerFrame>>

NextChecker ==
    \/ WriteFile
    \/ CallIsPrivileged
    \/ CallReloadConfigmap
    \/ OnceDo
    \/ OnceLock
    \/ OpenFile
    \/ ScanLine
    \/ LazyPublish
    \/ ReloadReturn
    \/ CheckMembership

SpecChecker == InitChecker /\ [][NextChecker]_vars

(***************************************************************************)
(* The lazy initializer and the reload                                     *)
(***************************************************************************)
\* the sets loadConfigmap has returned in full so far
completeSets ==
    {loadOf(lazyLoads.lazy[i]).accounts : i \in 1..Len(lazyLoads.lazy)}
        \cup Range(lazyLoads.reloaded)

\* C24: under concurrent IsPrivileged calls on one Checker the lazy
\* initializer reads the bootstrap file exactly once, no call evaluates
\* membership before the initializer has finished or against a set that is
\* only partly built, and a missing file gives the empty set and no error.
C24_LoadedOnce ==
    /\ Len(lazyLoads.lazy) <= 1
    /\ configmapOnce => Len(lazyLoads.lazy) = 1
    /\ \A g \in Goroutines :
          goroutines[g].pc = "check" =>
             /\ configmapOnce
             /\ Len(lazyLoads.lazy) = 1
             /\ configmapErr \/ configmapAccounts \in completeSets
    /\ (configmapOnce /\ lazyLoads.reloaded = <<>>
           /\ lazyLoads.lazy[1].status = "missing")
          => (configmapAccounts = {} /\ ~configmapErr)

\* every goroutine is in IsPrivileged, past the lazy load of a missing file
C24_Witness ==
    /\ \A g \in Goroutines :
          goroutines[g].pc = "check" /\ goroutines[g].op = "IsPrivileged"
    /\ Len(lazyLoads.lazy) = 1
    /\ lazyLoads.lazy[1].status = "missing"
    /\ configmapAccounts = {}

\* C25: an IsPrivileged call that starts after ReloadConfigmap returned nil
\* (and during which no other reload returns) answers the bootstrap-file part
\* of the check by the contents that reload read, whether the Checker was
\* not yet lazily loaded, lazily loaded, or lazily loaded with an error.
C25_ReloadTakesEffect ==
    (last.op = "IsPrivileged" /\ last.reloaded # <<>> /\ last.latest = last.reloaded)
        => (last.inConfigmap <=> last.accountID \in last.reloaded[1])

(***************************************************************************)
(* The request path: the RequireAccount / RequirePrivileged middleware and *)
(* the customer-account client with its cache (clients/dynamodb).  Each    *)
(* request runs in its own goroutine; getFromCache, putInCache and         *)
(* InvalidateCache each run under cacheMu and are one step each.  The      *)
(* customer table is written by other services.  Time is counted in        *)
(* periods of the cache TTL.                                               *)
(***************************************************************************)
\* requests in flight at a time
MaxRequests == 1
\* the clock runs from 0 to MaxTime
MaxTime == 2
\* defaultCacheTTL, clients/dynamodb 18-20: one period
defaultCacheTTL == 1

RequestGoroutines == 1..MaxRequests
CustomerIds == {TenantAccount}
\* the account id of a request: absent, or a customer's
RequestAccountIds == {""} \cup CustomerIds
\* the middleware chains a route is wrapped in
Chains == {<<"RequireAccount", "RequirePrivileged">>, <<"RequirePrivileged">>}

NoAccount == [found |-> FALSE]
CustomerAccount(privileged) == [found |-> TRUE, privileged |-> privileged]
NoEntry == [cached |-> FALSE]

\* variant of expired for which no entry is ever too old
expiredNever(t, expiresAt) == FALSE

\* getFromCache, clients/dynamodb 114: time.Now().After(entry.expiresAt)
expired(t, expiresAt) == t > expiresAt

InitRequest ==
    /\ cfgEnabled = TRUE
    /\ file = [status |-> "present", accounts |-> {BootstrapAccount}]
    /\ configmapOnce = FALSE
    /\ configmapAccounts = {}
    /\ configmapErr = FALSE
    /\ accounts = [a \in AccountIds |-> NoRow]
    /\ admins = {}
    /\ members = {}
    /\ policies = {}
    /\ attachments = {}
    /\ policyStores = {}
    /\ avpPolicies = {}
    /\ last = [op |-> "New"]
    /\ goroutines = [g \in RequestGoroutines |-> Idle]
    /\ onceM = NoGoroutine
    /\ lazyLoads = NoReads
    /\ customers = [a \in CustomerIds |-> NoAccount]
    /\ cache = [a \in CustomerIds |-> NoEntry]
    /\ now = 0
    /\ agentPolicies = {}

requestFrame ==
    <<cfgEnabled, file, checkerVars, accounts, admins, members, policies,
      attachments, policyStores, avpPolicies, onceM, lazyLoads, agentPolicies>>

\* another service registers, changes or removes a customer account
WriteCustomer ==
    \E a \in CustomerIds,
       row \in {NoAccount, CustomerAccount(TRUE), CustomerAccount(FALSE)} :
        /\ row # customers[a]
        /\ customers' = [customers EXCEPT ![a] = row]
        /\ UNCHANGED <<last, goroutines, cache, now, requestFrame>>

Tick ==
    /\ now < MaxTime
    /\ now' = now + 1
    /\ UNCHANGED <<last, goroutines, customers, cache, requestFrame>>

\* the response of a request: what was written, whether next.ServeHTTP ran,
\* what GetAccount returned and from where, the row the table held then,
\* and for a cached account whether its entry was within its TTL
Response(me, status, code, next) ==
    [op |-> "ServeHTTP", accountID |-> me.accountID, chain |-> me.chain,
     status |-> status, code |-> code, next |-> next,
     account |-> me.account, source |-> me.source, row |-> me.row,
     fresh |-> me.fresh, readBefore |-> me.readBefore]

\* a request arrives at the first middleware of its chain;
\* RequireAccount, authorization.go 33-41: no account id is refused
ServeHTTP ==
    \E g \in RequestGoroutines, accountID \in RequestAccountIds, chain \in Chains :
        LET me == [pc |-> IF chain[1] = "RequireAccount"
                          THEN "getFromCache" ELSE "RequirePrivileged",
                   accountID |-> accountID, chain |-> chain,
                   account |-> NoAccount, source |-> "none", row |-> NoAccount,
                   fresh |-> TRUE, readBefore |-> FALSE, invalidated |-> FALSE]
        IN  /\ goroutines[g] = Idle
            /\ IF chain[1] = "RequireAccount" /\ accountID = ""
               THEN /\ last' = Response(me, 403, "missing-account-id", FALSE)
                    /\ UNCHANGED goroutines
               ELSE /\ goroutines' = [goroutines EXCEPT ![g] = me]
                    /\ UNCHANGED last
            /\ UNCHANGED <<customers, cache, now, requestFrame>>

\* GetAccount, clients/dynamodb 72-75, and getFromCache, 105-119: an entry
\* that has not expired is returned
GetFromCache ==
    \E g \in RequestGoroutines :
        LET me == goroutines[g]
            entry == cache[me.accountID]
            hit == entry.cached /\ ~expired(now, entry.expiresAt)
        IN  /\ me.pc = "getFromCache"
            /\ goroutines' = [goroutines EXCEPT ![g] =
                   IF hit
                   THEN [me EXCEPT !.pc = "RequirePrivileged",
                                   !.account = entry.account,
                                   !.source = "cache",
                                   !.row = customers[me.accountID],
                                   !.fresh = now <= entry.expiresAt,
                                   !.readBefore = entry.readBefore]
                   ELSE [me EXCEPT !.pc = "GetItem"]]
            /\ UNCHANGED <<last, customers, cache, now, requestFrame>>

\* GetAccount, clients/dynamodb 79-97, and RequireAccount, authorization.go
\* 44-54: the item is read; an error is a 500, no item a 403
GetItem ==
    \E g \in RequestGoroutines, fails \in BOOLEAN :
        LET me == goroutines[g]
            row == customers[me.accountID]
            read == [me EXCEPT !.account = IF fails THEN NoAccount ELSE row,
                               !.source = "dynamodb",
                               !.row = row]
        IN  /\ me.pc = "GetItem"
            /\ IF fails
               THEN /\ last' = Response(read, 500, "internal-error", FALSE)
                    /\ goroutines' = [goroutines EXCEPT ![g] = Idle]
               ELSE IF ~row.found
               THEN /\ last' = Response(read, 403, "account-not-registered", FALSE)
                    /\ goroutines' = [goroutines EXCEPT ![g] = Idle]
               ELSE /\ goroutines' = [goroutines EXCEPT ![g] =
                                         [read EXCEPT !.pc = "putInCache"]]
                    /\ UNCHANGED last
            /\ UNCHANGED <<customers, cache, now, requestFrame>>

\* putInCache, clients/dynamodb 121-129.  readBefore records that the
\* account was read before an InvalidateCache that has returned since.
PutInCache ==
    \E g \in RequestGoroutines :
        LET me == goroutines[g] IN
        /\ me.pc = "putInCache"
        /\ cache' = [cache EXCEPT ![me.accountID] =
               [cached |-> TRUE, account |-> me.account,
                expiresAt |-> now + defaultCacheTTL,
                readBefore |-> me.invalidated]]
        /\ goroutines' = [goroutines EXCEPT ![g].pc = "RequirePrivileged"]
        /\ UNCHANGED <<last, customers, now, requestFrame>>

\* variant of Privileged that takes every account as privileged
PrivilegedAlways(account) == TRUE

\* authorization.go 75: account.Privileged
Privileged(account) == account.privileged

\* RequirePrivileged, authorization.go 65-83
RequirePrivileged ==
    \E g \in RequestGoroutines :
        LET me == goroutines[g] IN
        /\ me.pc = "RequirePrivileged"
        /\ last' = IF ~me.account.found
                   THEN Response(me, 500, "internal-error", FALSE)
                   ELSE IF ~Privileged(me.account)
                   THEN Response(me, 403, "not-privileged", FALSE)
                   ELSE Response(me, 200, "", TRUE)
        /\ goroutines' = [goroutines EXCEPT ![g] = Idle]
        /\ UNCHANGED <<customers, cache, now, requestFrame>>

\* InvalidateCache, clients/dynamodb 132-137
InvalidateCache ==
    \E a \in CustomerIds :
        /\ cache' = [cache EXCEPT ![a] = NoEntry]
        /\ goroutines' =
              [g \in RequestGoroutines |->
                  IF goroutines[g].pc = "putInCache" /\ goroutines[g].accountID = a
                  THEN [goroutines[g] EXCEPT !.invalidated = TRUE]
                  ELSE goroutines[g]]
        /\ last' = [op |-> "InvalidateCache", accountID |-> a]
        /\ UNCHANGED <<customers, now, requestFrame>>

NextRequest ==
    \/ WriteCustomer
    \/ Tick
    \/ ServeHTTP
    \/ GetFromCache
    \/ GetItem
    \/ PutInCache
    \/ RequirePrivileged
    \/ InvalidateCache

SpecRequest == InitRequest /\ [][NextRequest]_vars

(***************************************************************************)
(* The request path                                                        *)
(***************************************************************************)
LastServeHTTP == last.op = "ServeHTTP"
BothMiddlewares == <<"RequireAccount", "RequirePrivileged">>

\* C26 as stated: behind RequireAccount and RequirePrivileged the next
\* handler runs only for a request with an account id whose record is in
\* the table, with privileged = true, when the account is looked up; every
\* other request gets 403 or 500 and the next handler does not run.
C26_OnlyRegisteredPrivileged ==
    (LastServeHTTP /\ last.chain = BothMiddlewares)
        => /\ last.next =>
                 /\ last.accountID # ""
                 /\ last.row.found
                 /\ last.row.privileged
           /\ ~last.next =>
                 <<last.status, last.code>> \in
                    {<<403, "missing-account-id">>, <<403, "account-not-registered">>,
                     <<403, "not-privileged">>, <<500, "internal-error">>}

\* C26, amended: the next handler runs exactly for the requests with an
\* account id for which GetAccount returned a record with privileged = true,
\* and that record is the row read from the table for this request or a
\* cached one still within its TTL; otherwise the next handler does not run
\* and the response is 403 missing-account-id (no account id), 500 (store
\* error), 403 account-not-registered (no row and no fresh cache entry) or
\* 403 not-privileged; RequirePrivileged on its own answers 500.
C26_OnlyReturnedPrivileged ==
    LastServeHTTP =>
        IF last.chain = BothMiddlewares
        THEN /\ last.next <=>
                   /\ last.accountID # ""
                   /\ last.account.found
                   /\ last.account.privileged
             /\ last.account.found =>
                   \/ last.source = "dynamodb" /\ last.account = last.row
                   \/ last.source = "cache" /\ last.fresh
             /\ ~last.next =>
                   \/ /\ last.accountID = ""
                      /\ <<last.status, last.code>> = <<403, "missing-account-id">>
                   \/ /\ last.source = "dynamodb" /\ ~last.account.found
                      /\ last.row.found
                      /\ <<last.status, last.code>> = <<500, "internal-error">>
                   \/ /\ last.source = "dynamodb" /\ ~last.row.found
                      /\ <<last.status, last.code>>
                            \in {<<403, "account-not-registered">>,
                                 <<500, "internal-error">>}
                   \/ /\ last.account.found /\ ~last.account.privileged
                      /\ <<last.status, last.code>> = <<403, "not-privileged">>
        ELSE ~last.next /\ <<last.status, last.code>> = <<500, "internal-error">>

\* the next handler ran on a cached privileged account whose row has changed
C26_Witness ==
    /\ LastServeHTTP
    /\ last.next
    /\ last.source = "cache"
    /\ last.fresh
    /\ last.row # last.account

\* C29: the cache holds hits only and serves them only while fresh: an
\* entry is written only by putInCache with an account DynamoDB returned
\* and expires one TTL after it was written; GetAccount returns a cached
\* account only while the time is not after expiresAt; a request that finds
\* no item leaves the cache as it was.
C29_HitsOnlyWhileFresh ==
    [][/\ \A a \in CustomerIds :
             (cache'[a] # cache[a] /\ cache'[a].cached) =>
                /\ cache'[a].account.found
                /\ cache'[a].expiresAt = now + defaultCacheTTL
                /\ \E g \in RequestGoroutines :
                      /\ goroutines[g].pc = "putInCache"
                      /\ goroutines[g].source = "dynamodb"
                      /\ goroutines[g].accountID = a
                      /\ goroutines[g].account = cache'[a].account
       /\ \A g \in RequestGoroutines :
             /\ (goroutines[g].pc = "getFromCache"
                    /\ goroutines'[g].pc = "RequirePrivileged") =>
                   /\ cache[goroutines[g].accountID].cached
                   /\ now <= cache[goroutines[g].accountID].expiresAt
                   /\ goroutines'[g].account = cache[goroutines[g].accountID].account
             /\ (goroutines[g].pc = "GetItem" /\ goroutines'[g] = Idle) =>
                   /\ ~last'.account.found
                   /\ cache' = cache]_vars

\* a request found no item while an expired entry of the account was cached
C29_Witness ==
    /\ LastServeHTTP
    /\ last.code = "account-not-registered"
    /\ cache[last.accountID].cached
    /\ now > cache[last.accountID].expiresAt

\* C30: once InvalidateCache(id) has returned, GetAccount(id) is never
\* served from a cache entry whose account was read from DynamoDB before
\* the invalidation, whatever the interleaving with GetAccount(id).
C30_NoStaleAfterInvalidate ==
    (LastServeHTTP /\ last.source = "cache") => ~last.readBefore

(***************************************************************************)
(* The local evaluator client (MockAVPClient over cedar-agent).            *)
(* avpPolicies is here the ledger of the client's callers: the policies    *)
(* CreatePolicy returned an id for and DeletePolicy was not called on;     *)
(* agentPolicies is what cedar-agent holds.                                *)
(***************************************************************************)
\* policy ids in use at a time, by the callers or at cedar-agent
MaxAgentPolicies == 2

PolicyTexts ==
    {<<"permit (principal == ROSA::Principal::\"", Alice, "\", action, resource);">>,
     <<"permit (principal in ROSA::Group::\"", "G", "\", action, resource);">>}

ledgerIds == {p.policyId[2] : p \in avpPolicies}
agentIds == {p.id[2] : p \in agentPolicies}
\* uuid.New(), mock_avp.go 130
freshAgentPolicy == AvpPolicyId(Fresh(ledgerIds \cup agentIds))

\* clearPolicies, mock_avp.go 38-58: PUT /v1/policies with an empty list
clearPolicies(registered, failed) == IF failed THEN registered ELSE {}

\* postPolicy, mock_avp.go 61-92: POST /v1/policies with one policy
postPolicy(registered, policyID, cedarPolicy, failed) ==
    IF failed THEN registered
    ELSE {p \in registered : p.id # policyID}
             \cup {[id |-> policyID, content |-> cedarPolicy]}

\* a rule for the user applies to the user, one for a group to its members
applies(content, caller, groups) ==
    \/ content[1] = "permit (principal == ROSA::Principal::\"" /\ content[2] = caller
    \/ content[1] = "permit (principal in ROSA::Group::\"" /\ content[2] \in groups

InitMock ==
    /\ cfgEnabled = TRUE
    /\ file = [status |-> "present", accounts |-> {BootstrapAccount}]
    /\ configmapOnce = FALSE
    /\ configmapAccounts = {}
    /\ configmapErr = FALSE
    /\ accounts = [a \in AccountIds |-> NoRow]
    /\ admins = {}
    /\ members = {}
    /\ policies = {}
    /\ attachments = {}
    /\ policyStores = {}
    /\ avpPolicies = {}
    /\ last = [op |-> "New"]
    /\ goroutines = <<>>
    /\ onceM = NoGoroutine
    /\ lazyLoads = NoReads
    /\ customers = {}
    /\ cache = {}
    /\ now = 0
    /\ agentPolicies = {}

mockFrame ==
    <<cfgEnabled, file, checkerVars, accounts, admins, members, policies,
      attachments, policyStores, goroutines, onceM, lazyLoads, customers, cache, now>>

\* MockAVPClient.CreatePolicy, mock_avp.go 128-160
MockCreatePolicy ==
    \E cedarPolicy \in PolicyTexts, fails \in SUBSET {"clearPolicies", "postPolicy"} :
        LET policyID == freshAgentPolicy
            posted == "postPolicy" \notin fails
        IN  /\ Cardinality(ledgerIds \cup agentIds) < MaxAgentPolicies
            /\ agentPolicies' =
                  postPolicy(clearPolicies(agentPolicies, "clearPolicies" \in fails),
                             policyID, cedarPolicy, ~posted)
            /\ avpPolicies' =
                  IF posted
                  THEN avpPolicies \cup {[policyStoreId |-> PolicyStoreId(1),
                                          policyId |-> policyID,
                                          statement |-> cedarPolicy]}
                  ELSE avpPolicies
            /\ last' = [op |-> "MockCreatePolicy", fails |-> fails,
                        err |-> IF posted THEN NoErr
                                ELSE Wrap("failed to post policy", "transport"),
                        created |-> IF posted THEN policyID ELSE <<>>]
            /\ UNCHANGED mockFrame

\* MockAVPClient.UpdatePolicy, mock_avp.go 193-224
MockUpdatePolicy ==
    \E p \in avpPolicies, cedarPolicy \in PolicyTexts,
       fails \in SUBSET {"clearPolicies", "postPolicy"} :
        LET posted == "postPolicy" \notin fails IN
        /\ agentPolicies' =
              postPolicy(clearPolicies(agentPolicies, "clearPolicies" \in fails),
                         p.policyId, cedarPolicy, ~posted)
        /\ avpPolicies' =
              IF posted
              THEN (avpPolicies \ {p}) \cup {[p EXCEPT !.statement = cedarPolicy]}
              ELSE avpPolicies
        /\ last' = [op |-> "MockUpdatePolicy", fails |-> fails,
                    err |-> IF posted THEN NoErr
                            ELSE Wrap("failed to post policy", "transport"),
                    policyId |-> p.policyId]
        /\ UNCHANGED mockFrame

\* MockAVPClient.DeletePolicy, mock_avp.go 163-170
MockDeletePolicy ==
    \E p \in avpPolicies, fails \in SUBSET {"clearPolicies"} :
        /\ agentPolicies' = clearPolicies(agentPolicies, "clearPolicies" \in fails)
        /\ avpPolicies' = avpPolicies \ {p}
        /\ last' = [op |-> "MockDeletePolicy", fails |-> fails, err |-> NoErr,
                    policyId |-> p.policyId]
        /\ UNCHANGED mockFrame

\* MockAVPClient.IsAuthorized, mock_avp.go 227-287: cedar-agent decides on
\* the policies it holds
MockIsAuthorized ==
    \E caller \in CallerArns, groups \in SUBSET GroupIds :
        /\ last' = [op |-> "MockIsAuthorized", caller |-> caller, groups |-> groups,
                    evaluated |-> {p.id : p \in agentPolicies},
                    held |-> {p.policyId : p \in avpPolicies},
                    decision |->
                        IF \E p \in agentPolicies : applies(p.content, caller, groups)
                        THEN "ALLOW" ELSE "DENY"]
        /\ UNCHANGED <<avpPolicies, agentPolicies, mockFrame>>

NextMock ==
    \/ MockCreatePolicy
    \/ MockUpdatePolicy
    \/ MockDeletePolicy
    \/ MockIsAuthorized

SpecMock == InitMock /\ [][NextMock]_vars

\* C27: with the local adapter CreatePolicy adds one policy and DeletePolicy
\* removes only the one it names: every policy created and not deleted is
\* registered at cedar-agent with its text, and IsAuthorized evaluates all
\* of them (after CreatePolicy(P1) and CreatePolicy(P2), both P1 and P2).
C27_PoliciesStayRegistered ==
    /\ \A p \in avpPolicies :
          [id |-> p.policyId, content |-> p.statement] \in agentPolicies
    /\ last.op = "MockIsAuthorized" => last.held \subseteq last.evaluated

(***************************************************************************)
(* AttachPolicy and DeletePolicy interleaved.  Each store or evaluator     *)
(* call of a handler is one step; the handlers hold no lock and the writes *)
(* carry no condition.  The runs start from an enabled account with one    *)
(* template and no attachment.                                             *)
(***************************************************************************)
InitRace ==
    /\ cfgEnabled = TRUE
    /\ file = [status |-> "present", accounts |-> {BootstrapAccount}]
    /\ configmapOnce = FALSE
    /\ configmapAccounts = {}
    /\ configmapErr = FALSE
    /\ accounts = [a \in AccountIds |->
                      IF a = TenantAccount
                      THEN [present |-> TRUE, privileged |-> FALSE,
                            policyStoreId |-> PolicyStoreId(1)]
                      ELSE NoRow]
    /\ admins = {}
    /\ members = {}
    /\ policies = {PolicyRow(TenantAccount, PolicyId(1), DocAllowList)}
    /\ attachments = {}
    /\ policyStores = {[id |-> PolicyStoreId(1), schema |-> TRUE]}
    /\ avpPolicies = {}
    /\ last = [op |-> "New"]
    /\ goroutines = [g \in Goroutines |-> Idle]
    /\ onceM = NoGoroutine
    /\ lazyLoads = NoReads
    /\ customers = {}
    /\ cache = {}
    /\ now = 0
    /\ agentPolicies = {}

raceFrame ==
    <<cfgEnabled, file, checkerVars, accounts, admins, members, policyStores,
      onceM, lazyLoads, customers, cache, now, agentPolicies>>

\* a handler returns
Return(g, err) ==
    /\ last' = [op |-> goroutines[g].op, arg |-> goroutines[g].arg, err |-> err]
    /\ goroutines' = [goroutines EXCEPT ![g] = Idle]

\* AttachPolicy, authz.go 504-519: accountStore.Get and its checks
AttachGetAccount ==
    \E g \in Goroutines, target \in Targets, failed \in BOOLEAN :
        LET account == accounts[TenantAccount]
            me == [pc |-> "policyStore.Get", op |-> "AttachPolicy",
                   arg |-> [accountID |-> TenantAccount, policyID |-> PolicyId(1),
                            targetType |-> target[1], targetID |-> target[2]]]
        IN  /\ goroutines[g] = Idle
            /\ IF failed
               THEN /\ last' = [op |-> me.op, arg |-> me.arg, err |-> Raw("transport")]
                    /\ UNCHANGED goroutines
               ELSE IF ~account.present \/ ~hasPolicyStore(account)
               THEN /\ last' = [op |-> me.op, arg |-> me.arg,
                                err |-> IF ~account.present
                                        THEN Plain("account not found")
                                        ELSE Plain("account has no policy store")]
                    /\ UNCHANGED goroutines
               ELSE /\ goroutines' = [goroutines EXCEPT ![g] = me]
                    /\ UNCHANGED last
            /\ UNCHANGED <<policies, attachments, avpPolicies, raceFrame>>

\* AttachPolicy, authz.go 521-536: policyStore.Get, GetV0Policy and
\* TranslateWithPrincipal
AttachGetPolicy ==
    \E g \in Goroutines, failed \in BOOLEAN :
        LET me == goroutines[g]
            rows == policyRows(me.arg.accountID, me.arg.policyID)
        IN  /\ me.pc = "policyStore.Get"
            /\ IF failed
               THEN Return(g, Wrap("failed to get policy", "transport"))
               ELSE IF rows = {}
               THEN Return(g, Plain("policy not found"))
               ELSE \E orders \in StatementOrders(
                                      GetV0Policy(CHOOSE r \in rows : TRUE).Statements) :
                       LET tr == TranslateWithPrincipal(
                                     GetV0Policy(CHOOSE r \in rows : TRUE),
                                     me.arg.targetType, me.arg.targetID, orders)
                       IN  IF tr.err
                           THEN Return(g, Plain("failed to translate policy"))
                           ELSE /\ goroutines' = [goroutines EXCEPT ![g] =
                                       [pc |-> "avpClient.CreatePolicy", op |-> me.op,
                                        arg |-> me.arg,
                                        statement |-> combineRules(tr.rules)]]
                                /\ UNCHANGED last
            /\ UNCHANGED <<policies, attachments, avpPolicies, raceFrame>>

\* AttachPolicy, authz.go 544-558: avpClient.CreatePolicy
AttachCreateAvpPolicy ==
    \E g \in Goroutines, failed \in BOOLEAN :
        LET me == goroutines[g]
            avpId == AvpPolicyId(freshAvpPolicy)
        IN  /\ me.pc = "avpClient.CreatePolicy"
            /\ freshAvpPolicy <= MaxAttachments
            /\ IF failed
               THEN /\ Return(g, Wrap("failed to create AVP policy", "transport"))
                    /\ UNCHANGED avpPolicies
               ELSE /\ avpPolicies' = avpPolicies \cup
                          {[policyStoreId |-> accounts[me.arg.accountID].policyStoreId,
                            policyId |-> avpId, statement |-> me.statement]}
                    /\ goroutines' = [goroutines EXCEPT ![g] =
                           [pc |-> "attachmentStore.Create", op |-> me.op,
                            arg |-> me.arg, avpPolicyId |-> avpId]]
                    /\ UNCHANGED last
            /\ UNCHANGED <<policies, attachments, raceFrame>>

\* AttachPolicy, authz.go 561: attachmentStore.Create, a PutItem without a
\* condition (attachments.go 64-98)
AttachCreateRow ==
    \E g \in Goroutines, failed \in BOOLEAN :
        LET me == goroutines[g] IN
        /\ me.pc = "attachmentStore.Create"
        /\ freshAttachment <= MaxAttachments
        /\ attachments' =
              IF failed THEN attachments
              ELSE attachments \cup
                   {AttachmentRow(me.arg.accountID, AttachmentId(freshAttachment),
                                  me.arg.policyID, me.arg.targetType, me.arg.targetID,
                                  me.avpPolicyId)}
        /\ Return(g, IF failed THEN Wrap("failed to create attachment", "transport")
                     ELSE NoErr)
        /\ UNCHANGED <<policies, avpPolicies, raceFrame>>

\* DeletePolicy, authz.go 487-493: attachmentStore.ListByPolicy and the
\* refusal while the template has attachments
DeleteListByPolicy ==
    \E g \in Goroutines, failed \in BOOLEAN :
        LET me == [pc |-> "policyStore.Delete", op |-> "DeletePolicy",
                   arg |-> [accountID |-> TenantAccount, policyID |-> PolicyId(1)]]
        IN  /\ goroutines[g] = Idle
            /\ IF failed
               THEN /\ last' = [op |-> me.op, arg |-> me.arg,
                                err |-> Wrap("failed to list attachments by policy",
                                             "transport")]
                    /\ UNCHANGED goroutines
               ELSE IF hasAttachments(me.arg.accountID, me.arg.policyID)
               THEN /\ last' = [op |-> me.op, arg |-> me.arg,
                                err |-> Plain("cannot delete policy with existing attachments")]
                    /\ UNCHANGED goroutines
               ELSE /\ goroutines' = [goroutines EXCEPT ![g] = me]
                    /\ UNCHANGED last
            /\ UNCHANGED <<policies, attachments, avpPolicies, raceFrame>>

\* DeletePolicy, authz.go 495: policyStore.Delete, a DeleteItem without a
\* condition (policies.go 151-165)
DeleteRow ==
    \E g \in Goroutines, failed \in BOOLEAN :
        LET me == goroutines[g] IN
        /\ me.pc = "policyStore.Delete"
        /\ policies' = IF failed THEN policies
                       ELSE policies \ policyRows(me.arg.accountID, me.arg.policyID)
        /\ Return(g, IF failed THEN Wrap("failed to delete policy", "transport")
                     ELSE NoErr)
        /\ UNCHANGED <<attachments, avpPolicies, raceFrame>>

NextRace ==
    \/ AttachGetAccount
    \/ AttachGetPolicy
    \/ AttachCreateAvpPolicy
    \/ AttachCreateRow
    \/ DeleteListByPolicy
    \/ DeleteRow

SpecRace == InitRace /\ [][NextRace]_vars

\* C28: under every interleaving of AttachPolicy and DeletePolicy on one
\* (accountId, policyId) no attachment row names a template row that no
\* longer exists.
C28_NoDanglingAttachment ==
    \A a \in attachments : policyRows(a.accountId, a.policyId) # {}

====
